---- MODULE Spec2Model ----
(***************************************************************************)
(* A model of the music-news pipeline: the duplicate detector and resolver *)
(* of AdvancedNewsCollector, the scorer and selector of AdvancedClassifier *)
(* and the stages of MusicNewsAutomationSystem.run_automation.             *)
(*                                                                         *)
(* Text.  A Python string is modelled as a sequence of tokens.  A token is *)
(* a maximal run of letters (a word, kept in its original case), one       *)
(* white-space character or one punctuation character.  The strings the    *)
(* model draws are well formed: two words are never adjacent (they would   *)
(* be one word).  Lower-casing, the regular expressions and split() are    *)
(* modelled by what they do to such a sequence.                            *)
(*                                                                         *)
(* Numbers.  A Python float that is a ratio of two small integers is kept  *)
(* as the exact ratio; where the binary64 result of the source's           *)
(* expression falls on the other side of a threshold than the exact value, *)
(* the comparison is taken from FloatBelow, the table of those cases.      *)
(* The resolver's scores are whole hundredths (ScoreTieAbove holds the     *)
(* ties that binary64 breaks), the classifier's importance and trending    *)
(* scores whole ten-thousandths, the relevance scores whole thousandths.   *)
(***************************************************************************)
EXTENDS Integers, Sequences, FiniteSets, TLC

VARIABLES
    t_pc,       \* normalize_title harness: "off", "in", "once", "twice"
    t_title,    \* the raw title
    t_once,     \* normalize_title(title)
    t_twice,    \* normalize_title(normalize_title(title))
    p_pc,       \* detector harness: "off", "in", "compared", "swapped"
    p_a, p_b,   \* the two items
    p_dup,      \* is_duplicate_advanced(a, b)
    p_sim,      \* calculate_title_similarity(a.title, b.title)
    p_dup_rev,  \* is_duplicate_advanced(b, a)
    p_sim_rev,  \* calculate_title_similarity(b.title, a.title)
    d_pc,       \* remove_duplicates_enhanced: "off", "start", "loop", "done",
                \* "raised"
    news_list,  \* its argument
    sorted_news,    \* news_list, latest first
    d_next,     \* index in sorted_news of the item the loop takes next
    unique_news,    \* the accepted items
    removed_count,
    url_cache,  \* normalized URLs of the items seen
    s_pc,       \* classifier: "off", "collected", "processed", "raised",
                \* "top", "trending"
    s_news,     \* the list the classifier is given, then the processed list
    s_max_total,    \* the cap of the selection
    selected_news,  \* the selection returned
    r_pc,       \* run_automation: "off", "collecting", "collected",
                \* "processed", "validated", "done"
    r_news,     \* the list the last completed stage yielded
    r_stage,    \* the number of the last completed stage
    r_metrics,  \* self.metrics
    r_report,   \* the report returned
    v_pc,       \* resolver harness: "off", "in", "resolved", "again", "swapped"
    v_existing, v_new,  \* the two items
    v_result,   \* should_replace_news(existing, new): "True", "False" or
                \* "raised"; "" before the call
    v_again,    \* the same for a second evaluation
    v_swapped,  \* should_replace_news(new, existing)
    h_pc,       \* fingerprint harness: "off", "in", "first", "both"
    h_first, h_second,  \* two texts, each [title, description]
    h_hash_first, h_hash_second,    \* generate_content_hash of each
    u_pc,       \* summarizer: "off", "ready", or how the last call ended
    u_class,    \* "AISummarizer" or "AnthropicSummarizer"
    request_count,  \* self.request_count
    u_sent,     \* API requests sent since the last 60-second wait
    u_calls,    \* calls of generate_summary so far
    n_pc,       \* deliver_news: "off", "start", "slack", "returned", "raised"
    n_test_mode,    \* self.test_mode
    n_client,   \* self.slack_client is set
    n_message,  \* the formatted Slack message: the lengths of its lines,
                \* <<>> when the formatting raises
    n_html,     \* the formatting of the e-mail: "html" or "raises"
    n_posts,    \* the texts posted to Slack
    n_slack,    \* how send_slack_message ended: "True", "False", "raised"
    n_email,    \* how send_email ended
    n_results   \* the results of deliver_news

titleVars == <<t_pc, t_title, t_once, t_twice>>
pairVars == <<p_pc, p_a, p_b, p_dup, p_sim, p_dup_rev, p_sim_rev>>
dedupVars == <<d_pc, news_list, sorted_news, d_next, unique_news,
               removed_count, url_cache>>
selectVars == <<s_pc, s_news, s_max_total, selected_news>>
runVars == <<r_pc, r_news, r_stage, r_metrics, r_report>>
resolveVars == <<v_pc, v_existing, v_new, v_result, v_again, v_swapped>>
hashVars == <<h_pc, h_first, h_second, h_hash_first, h_hash_second>>
summarizerVars == <<u_pc, u_class, request_count, u_sent, u_calls>>
deliveryVars == <<n_pc, n_test_mode, n_client, n_message, n_html, n_posts,
                  n_slack, n_email, n_results>>
\* the harnesses of the collector and the classifier, and the others
coreVars == <<titleVars, pairVars, dedupVars, selectVars, runVars>>
extVars == <<resolveVars, hashVars, summarizerVars, deliveryVars>>
vars == <<coreVars, extVars>>

----------------------------------------------------------------------------
(* Tokens *)

\* str.lower() on one token (the vocabulary of the model)
Lower(t) ==
    CASE t = "Drake" -> "drake"
      [] t = "Drops" -> "drops"
      [] t = "New" -> "new"
      [] t = "Song" -> "song"
      [] t = "Taylor" -> "taylor"
      [] t = "Swift" -> "swift"
      [] t = "Announces" -> "announces"
      [] t = "Album" -> "album"
      [] t = "The" -> "the"
      [] t = "Life" -> "life"
      [] t = "Showgirl" -> "showgirl"
      [] t = "Indie" -> "indie"
      [] t = "Band" -> "band"
      [] t = "Tour" -> "tour"
      [] t = "Rock" -> "rock"
      [] t = "Exclusive" -> "exclusive"
      [] t = "Watch" -> "watch"
      [] t = "Example.COM" -> "example.com"
      [] t = "WWW.Billboard.com" -> "www.billboard.com"
      [] t = "A" -> "a"
      [] t = "None" -> "none"
      [] OTHER -> t

\* Python's None where a string is expected, kept as the text that formatting
\* it into an f-string yields.  No title or description of the model is the
\* string 'None', so the marker stands for None alone.
None == <<"None">>

IsNone(v) == v = None

\* the tokens that match [A-Z][a-z]+ as a whole
CapWords ==
    {"Drake", "Drops", "New", "Song", "Taylor", "Swift", "Announces", "Album",
     "The", "Life", "Showgirl", "Indie", "Band", "Tour", "Rock", "Exclusive",
     "Watch"}

\* the lower-case words in str order (sorted() of generate_content_hash)
Alphabetical ==
    <<"a", "album", "announces", "band", "drake", "drops", "ep", "exclusive",
      "hiphop", "indie", "keeps", "life", "new", "of", "on", "rock",
      "showgirl", "song", "swift", "taylor", "the", "tour", "watch">>

\* \s of the regular expressions
IsSpace(t) == t = " "

\* a character matched by [^\w\s'"] (normalize_title) and by [^\w\s]
IsPunct(t) == t \in {",", "!", "-", ":", "."}

IsWord(t) == ~IsSpace(t) /\ ~IsPunct(t)

\* no two words adjacent
WellFormed(s) == \A i \in 1..(Len(s) - 1) : ~(IsWord(s[i]) /\ IsWord(s[i + 1]))

StrLower(s) == [i \in 1..Len(s) |-> Lower(s[i])]

RECURSIVE LStrip(_)
LStrip(s) == IF s # <<>> /\ IsSpace(Head(s)) THEN LStrip(Tail(s)) ELSE s

RECURSIVE RStrip(_)
RStrip(s) ==
    IF s # <<>> /\ IsSpace(s[Len(s)]) THEN RStrip(SubSeq(s, 1, Len(s) - 1)) ELSE s

\* str.strip()
Strip(s) == RStrip(LStrip(s))

\* re.sub(r'[^\w\s\'\"...]', ' ', s)
PunctToSpace(s) == [i \in 1..Len(s) |-> IF IsPunct(s[i]) THEN " " ELSE s[i]]

\* re.sub(r'\s+', ' ', s)
RECURSIVE CollapseSpace(_)
CollapseSpace(s) ==
    IF Len(s) < 2 THEN s
    ELSE IF IsSpace(s[1]) /\ IsSpace(s[2]) THEN CollapseSpace(Tail(s))
    ELSE <<s[1]>> \o CollapseSpace(Tail(s))

\* re.sub(f'^{prefix}\\s+', '', s): the prefix, then at least one white space
RemovePrefix(s, p) ==
    IF /\ Len(s) > Len(p)
       /\ SubSeq(s, 1, Len(p)) = p
       /\ IsSpace(s[Len(p) + 1])
    THEN LStrip(SubSeq(s, Len(p) + 1, Len(s)))
    ELSE s

\* re.sub(f'\\s+{suffix}$', '', s): at least one white space, then the suffix
RemoveSuffix(s, p) ==
    IF /\ Len(s) > Len(p)
       /\ SubSeq(s, Len(s) - Len(p) + 1, Len(s)) = p
       /\ IsSpace(s[Len(s) - Len(p)])
    THEN RStrip(SubSeq(s, 1, Len(s) - Len(p)))
    ELSE s

prefixes_to_remove ==
    << <<"exclusive">>, <<"breaking">>, <<"watch">>, <<"listen">>, <<"new">>,
       <<"stream">>, <<"premiere">>, <<"first", " ", "look">>, <<"video">>,
       <<"audio">>, <<"live">>, <<"official">> >>

suffixes_to_remove ==
    << <<"watch">>, <<"listen">>, <<"video">>, <<"audio">>, <<"stream">> >>

\* for prefix in prefixes_to_remove: normalized = re.sub(...)
RECURSIVE RemovePrefixes(_, _)
RemovePrefixes(s, ps) ==
    IF ps = <<>> THEN s ELSE RemovePrefixes(RemovePrefix(s, Head(ps)), Tail(ps))

RECURSIVE RemoveSuffixes(_, _)
RemoveSuffixes(s, ps) ==
    IF ps = <<>> THEN s ELSE RemoveSuffixes(RemoveSuffix(s, Head(ps)), Tail(ps))

normalize_title(title) ==
    LET lowered   == Strip(StrLower(title))
        cleaned   == CollapseSpace(PunctToSpace(lowered))
        noPrefix  == RemovePrefixes(cleaned, prefixes_to_remove)
        noSuffix  == RemoveSuffixes(noPrefix, suffixes_to_remove)
    IN  Strip(noSuffix)

----------------------------------------------------------------------------
(* Words and sets of words *)

\* str.split(): the maximal runs of non-white-space tokens, each joined into
\* one word
RECURSIVE SplitFrom(_, _, _)
SplitFrom(s, i, cur) ==
    IF i > Len(s) THEN (IF cur = "" THEN <<>> ELSE <<cur>>)
    ELSE IF IsSpace(s[i])
         THEN (IF cur = "" THEN <<>> ELSE <<cur>>) \o SplitFrom(s, i + 1, "")
         ELSE SplitFrom(s, i + 1, cur \o s[i])

Split(s) == SplitFrom(s, 1, "")

Range(f) == {f[i] : i \in DOMAIN f}

\* set(s.split())
WordSet(s) == Range(Split(s))

\* len(s), in characters
RECURSIVE CharLen(_)
CharLen(s) == IF s = <<>> THEN 0 ELSE Len(Head(s)) + CharLen(Tail(s))

\* s.count(' ')
CountSpaces(s) == Cardinality({i \in 1..Len(s) : s[i] = " "})

\* len(s.split()) of a string in which every word is one token
NumWords(s) == Cardinality({i \in 1..Len(s) : ~IsSpace(s[i])})

\* the terms of the keyword lists that are a substring of the lower-case word w
SubTerms(w) ==
    CASE w = "keeps" -> {"keeps", "ep"}
      [] w = "exclusive" -> {"exclusive", "ive"}
      [] w = "debuts" -> {"debuts", "debut"}
      [] OTHER -> {w}

\* `term in text` for a lower-case term and a lower-case text.  A one-word term
\* is a substring of some word of the text; a term of several words lies in the
\* text token by token (no word of the vocabulary ends with a popular artist's
\* first word or starts with its last word, but the word itself)
TermIn(term, text) ==
    IF Len(term) = 1
    THEN \E i \in 1..Len(text) : term[1] \in SubTerms(text[i])
    ELSE \E i \in 1..(Len(text) - Len(term) + 1) :
            SubSeq(text, i, i + Len(term) - 1) = term

popular_artists ==
    << <<"taylor", " ", "swift">>, <<"bts">>, <<"blackpink">>, <<"drake">>,
       <<"ariana", " ", "grande">>, <<"billie", " ", "eilish">>,
       <<"dua", " ", "lipa">>, <<"olivia", " ", "rodrigo">>,
       <<"travis", " ", "scott">>, <<"kendrick", " ", "lamar">> >>

actions ==
    << <<"announces">>, <<"releases">>, <<"debuts">>, <<"shares">>, <<"drops">>,
       <<"reveals">>, <<"teases">> >>

music_terms ==
    << <<"album">>, <<"song">>, <<"tour">>, <<"concert">>, <<"single">>, <<"ep">>,
       <<"collaboration">> >>

\* the end of the match of [A-Z][a-z]+(?:\s+[A-Z][a-z]+)* that starts at the
\* capitalised word s[i]: the regular expression is greedy
RECURSIVE SpanEnd(_, _)
SpanEnd(s, i) ==
    LET after == {m \in (i + 2)..Len(s) :
                     /\ s[m] \in CapWords
                     /\ \A k \in (i + 1)..(m - 1) : IsSpace(s[k])}
    IN  IF after = {} THEN i
        ELSE SpanEnd(s, CHOOSE m \in after : \A n \in after : m <= n)

\* re.findall(artist_pattern, s): the matches, left to right, not overlapping
RECURSIVE CapSpansFrom(_, _)
CapSpansFrom(s, i) ==
    IF i > Len(s) THEN {}
    ELSE IF s[i] \in CapWords
         THEN LET e == SpanEnd(s, i)
              IN  {SubSeq(s, i, e)} \cup CapSpansFrom(s, e + 1)
         ELSE CapSpansFrom(s, i + 1)

extract_core_keywords(title, description) ==
    LET raw  == title \o <<" ">> \o description
        text == StrLower(raw)
        artist_names ==
            {a \in Range(popular_artists) : TermIn(a, text)}
            \cup {StrLower(m) : m \in {sp \in CapSpansFrom(raw, 1) :
                                          NumWords(sp) <= 3 /\ CharLen(sp) > 2}}
        action_keywords == {a \in Range(actions) : TermIn(a, text)}
        music_keywords  == {a \in Range(music_terms) : TermIn(a, text)}
    IN  artist_names \cup action_keywords \cup music_keywords

----------------------------------------------------------------------------
(* URLs.  A link is a record of its host, its path (a sequence of "/" and  *)
(* segment tokens) and its query (a sequence of <<name, value>>); the      *)
(* empty link has host "" and an empty path.                               *)

Link(host, path, query) == [host |-> host, path |-> path, query |-> query]

\* the empty string as a link
NoLink == Link("", <<>>, <<>>)

\* re.sub(r'/+$', '', s)
RECURSIVE StripSlashes(_)
StripSlashes(s) ==
    IF s # <<>> /\ s[Len(s)] = "/" THEN StripSlashes(SubSeq(s, 1, Len(s) - 1)) ELSE s

\* re.sub(r'/+', '/', s)
RECURSIVE CollapseSlashes(_)
CollapseSlashes(s) ==
    IF Len(s) < 2 THEN s
    ELSE IF s[1] = "/" /\ s[2] = "/" THEN CollapseSlashes(Tail(s))
    ELSE <<s[1]>> \o CollapseSlashes(Tail(s))

important_params == <<"id", "p", "article_id", "post_id">>

\* the query parameters normalize_url keeps in filtered_query, which it never
\* reads again
filtered_query(url) ==
    {q \in Range(url.query) : Lower(q[1]) \in Range(important_params)}

\* netloc + path of the lower-cased link, the slashes cleaned; the query is
\* not part of it
normalize_url(url) ==
    LET netloc == IF url.host = "" THEN <<>> ELSE <<Lower(url.host)>>
        normalized == netloc \o StrLower(url.path)
    IN  CollapseSlashes(StripSlashes(normalized))

----------------------------------------------------------------------------
(* Similarity.  A similarity is kept as its two ratios: the Jaccard ratio   *)
(* ji/ju of the title word sets and the ratio ki/ku of the keyword sets.    *)

\* the (J, K, threshold in hundredths) for which the binary64 value of
\* J * 0.7 + K * 0.3 is below the threshold although the exact value equals
\* it, among the ratios of sets of at most 12 elements; no binary64 value is
\* at or above a threshold that the exact value is below
FloatBelow ==
    {<<1, 2, 1, 1, 65>>, <<4, 7, 1, 3, 50>>, <<4, 7, 5, 6, 65>>,
     <<2, 3, 1, 9, 50>>, <<3, 4, 1, 4, 60>>, <<3, 4, 5, 12, 65>>,
     <<3, 4, 11, 12, 80>>, <<4, 5, 3, 10, 65>>, <<4, 5, 4, 5, 80>>,
     <<6, 7, 2, 3, 80>>, <<7, 8, 1, 8, 65>>, <<7, 8, 5, 8, 80>>,
     <<10, 11, 6, 11, 80>>, <<1, 1, 1, 3, 80>>}

\* len(a & b) / len(a | b), as <<numerator, denominator>>
JaccardRatio(a, b) == <<Cardinality(a \cap b), Cardinality(a \cup b)>>

calculate_title_similarity_jaccard(title1, title2) ==
    LET norm1 == WordSet(normalize_title(title1))
        norm2 == WordSet(normalize_title(title2))
        jaccard == JaccardRatio(norm1, norm2)
    IN  IF norm1 = {} \/ norm2 = {}
        THEN [ji |-> 0, ju |-> 1, ki |-> 0, ku |-> 1]
        ELSE [ji |-> jaccard[1], ju |-> jaccard[2],
              ki |-> jaccard[1], ku |-> jaccard[2]]

calculate_title_similarity(title1, title2) ==
    LET norm1 == WordSet(normalize_title(title1))
        norm2 == WordSet(normalize_title(title2))
        keywords1 == extract_core_keywords(title1, <<>>)
        keywords2 == extract_core_keywords(title2, <<>>)
        jaccard == JaccardRatio(norm1, norm2)
        keyword == IF keywords1 # {} /\ keywords2 # {}
                   THEN JaccardRatio(keywords1, keywords2)
                   ELSE <<0, 1>>
    IN  IF norm1 = {} \/ norm2 = {}
        THEN [ji |-> 0, ju |-> 1, ki |-> 0, ku |-> 1]
        ELSE [ji |-> jaccard[1], ju |-> jaccard[2],
              ki |-> keyword[1], ku |-> keyword[2]]

\* final_similarity = jaccard * 0.7 + keyword * 0.3, as a ratio
SimNum(sim) == 7 * sim.ji * sim.ku + 3 * sim.ki * sim.ju
SimDen(sim) == 10 * sim.ju * sim.ku

\* similarity >= pct / 100, as the binary64 comparison decides it
SimAtLeast(sim, pct) ==
    /\ 100 * SimNum(sim) >= pct * SimDen(sim)
    /\ ~\E e \in FloatBelow :
           /\ e[5] = pct
           /\ sim.ji * e[2] = e[1] * sim.ju
           /\ sim.ki * e[4] = e[3] * sim.ku

check_popular_artist_duplicate(news1, news2) ==
    LET text1 == StrLower(news1.title \o <<" ">> \o news1.description)
        text2 == StrLower(news2.title \o <<" ">> \o news2.description)
    IN  \E n \in DOMAIN popular_artists :
            /\ TermIn(popular_artists[n], text1)
            /\ TermIn(popular_artists[n], text2)
            /\ SimAtLeast(calculate_title_similarity(news1.title, news2.title), 60)

----------------------------------------------------------------------------
(* The content fingerprint *)

\* the place of a token in str order: the space before every letter
RankOf ==
    [t \in Range(Alphabetical) \cup {" "} |->
        IF t = " " THEN 0 ELSE CHOOSE n \in DOMAIN Alphabetical : Alphabetical[n] = t]

Rank(t) == RankOf[t]

\* a <= b for two strings of lower-case words and spaces
RECURSIVE StrLeq(_, _)
StrLeq(a, b) ==
    IF a = <<>> THEN TRUE
    ELSE IF b = <<>> THEN FALSE
    ELSE IF Head(a) = Head(b) THEN StrLeq(Tail(a), Tail(b))
    ELSE Rank(Head(a)) < Rank(Head(b))

\* ' '.join(sorted(S))
RECURSIVE JoinSorted(_)
JoinSorted(S) ==
    IF S = {} THEN <<>>
    ELSE LET m == CHOOSE x \in S : \A y \in S : StrLeq(x, y)
         IN  IF S = {m} THEN m ELSE m \o <<" ">> \o JoinSorted(S \ {m})

\* re.sub(r'[^\w\s]', '', s)
RemovePunct(s) == SelectSeq(s, LAMBDA t : ~IsPunct(t))

stop_words == {"the", "and", "for", "with", "from", "new", "has"}

\* the words of the title and the description that generate_content_hash
\* collects in meaningful_words
meaningful_words(title, description) ==
    LET title_words == WordSet(normalize_title(title))
        desc_words  == WordSet(RemovePunct(StrLower(description)))
    IN  {w \in title_words \cup desc_words : Len(w) >= 3 /\ w \notin stop_words}

MeaningfulCap == 10

\* the string that is hashed; md5 is taken to be injective.  Of more than
\* MeaningfulCap meaningful words the source keeps those its set iteration
\* yields first; the items of the model have at most MeaningfulCap
generate_content_hash(title, description) ==
    LET core_keywords == extract_core_keywords(title, description)
        all_keywords  == core_keywords
                         \cup {<<w>> : w \in meaningful_words(title, description)}
    IN  JoinSorted(all_keywords)

\* meaningful_words[:10]: the list is filled in the iteration order of a set
\* of strings, which follows the hash values of the words and the order in
\* which they were inserted, so of more than MeaningfulCap words any
\* MeaningfulCap may be the ones kept
capped_words(words) ==
    IF Cardinality(words) <= MeaningfulCap THEN {words}
    ELSE {kept \in SUBSET words : Cardinality(kept) = MeaningfulCap}

\* the strings that generate_content_hash may hash for a title and a
\* description
content_hashes(title, description) ==
    {JoinSorted(extract_core_keywords(title, description)
                  \cup {<<w>> : w \in kept}) :
        kept \in capped_words(meaningful_words(title, description))}

----------------------------------------------------------------------------
(* Publication times.  published_date is [kind |-> "time", t |-> seconds]  *)
(* for a string of the form '%Y-%m-%d %H:%M:%S', [kind |-> "empty"] for '', *)
(* [kind |-> "bad"] for a string strptime rejects ('not-a-date'),          *)
(* [kind |-> "null"] for None and [kind |-> "absent"] when the item has no *)
(* such key, which news.get('published_date', '') reads as ''.             *)

Time(n)   == [kind |-> "time", t |-> n]
NoDate    == [kind |-> "empty", t |-> 0]
BadDate   == [kind |-> "bad", t |-> 0]
NullDate  == [kind |-> "null", t |-> 0]
AbsentDate == [kind |-> "absent", t |-> 0]

\* bool(news.get('published_date', '')): a string that is not empty
Truthy(d) == d.kind \in {"time", "bad"}

\* strptime succeeds
Parses(d) == d.kind = "time"

\* strptime raises TypeError: its argument is not a string
NotAString(d) == d.kind = "null"

Abs(n) == IF n < 0 THEN -n ELSE n

----------------------------------------------------------------------------
(* The duplicate detector *)

\* step 1: both normalized URLs are non-empty and equal
url_duplicate(news1, news2) ==
    LET url1 == normalize_url(news1.link)
        url2 == normalize_url(news2.link)
    IN  url1 # <<>> /\ url2 # <<>> /\ url1 = url2

\* title_similarity * 0.6 + keyword_similarity * 0.4 >= 0.75, for the keyword
\* ratio overlap[1] / overlap[2]; among the ratios of sets of at most 12
\* elements the binary64 comparison decides as the exact one
CombinedAtLeast75(title_similarity, overlap) ==
    4 * (6 * SimNum(title_similarity) * overlap[2]
         + 4 * overlap[1] * SimDen(title_similarity))
      >= 30 * SimDen(title_similarity) * overlap[2]

keyword_duplicate_strict(news1, news2, title_similarity) ==
    LET keywords1 == extract_core_keywords(news1.title, news1.description)
        keywords2 == extract_core_keywords(news2.title, news2.description)
        overlap   == JaccardRatio(keywords1, keywords2)
    IN  /\ SimAtLeast(title_similarity, 65)
        /\ keywords1 # {} /\ keywords2 # {}
        /\ overlap[2] > 0
        /\ 100 * (6 * SimNum(title_similarity) * overlap[2]
                  + 4 * overlap[1] * SimDen(title_similarity))
             >= 850 * SimDen(title_similarity) * overlap[2]

\* step 5: a medium title similarity and a high combined score
keyword_duplicate(news1, news2, title_similarity) ==
    LET keywords1 == extract_core_keywords(news1.title, news1.description)
        keywords2 == extract_core_keywords(news2.title, news2.description)
        overlap   == JaccardRatio(keywords1, keywords2)
    IN  /\ SimAtLeast(title_similarity, 65)
        /\ keywords1 # {} /\ keywords2 # {}
        /\ overlap[2] > 0
        /\ CombinedAtLeast75(title_similarity, overlap)

source_time_duplicate_signed(news1, news2, title_similarity) ==
    LET time1 == news1.published_date
        time2 == news2.published_date
    IN  /\ news1.source = news2.source
        /\ SimAtLeast(title_similarity, 50)
        /\ Truthy(time1) /\ Truthy(time2)
        /\ Parses(time1) /\ Parses(time2)
        /\ time1.t - time2.t <= 7200

\* step 6: the same source, a similar title and at most two hours apart; a
\* time that does not parse raises ValueError, which is passed over
source_time_duplicate(news1, news2, title_similarity) ==
    LET time1 == news1.published_date
        time2 == news2.published_date
    IN  /\ news1.source = news2.source
        /\ SimAtLeast(title_similarity, 50)
        /\ Truthy(time1) /\ Truthy(time2)
        /\ Parses(time1) /\ Parses(time2)
        /\ Abs(time1.t - time2.t) <= 7200

is_duplicate_advanced(news1, news2) ==
    LET title1 == news1.title
        title2 == news2.title
        title_similarity == calculate_title_similarity(title1, title2)
        hash1 == generate_content_hash(title1, news1.description)
        hash2 == generate_content_hash(title2, news2.description)
    IN  IF url_duplicate(news1, news2) THEN TRUE
        ELSE IF check_popular_artist_duplicate(news1, news2) THEN TRUE
        ELSE IF SimAtLeast(title_similarity, 80) THEN TRUE
        ELSE IF hash1 = hash2 THEN TRUE
        ELSE IF keyword_duplicate(news1, news2, title_similarity) THEN TRUE
        ELSE IF source_time_duplicate(news1, news2, title_similarity) THEN TRUE
        ELSE FALSE

----------------------------------------------------------------------------
(* The resolver *)

\* source_priority.get(source, 1)
source_priority(source) ==
    CASE source = "billboard.com" -> 10
      [] source = "rollingstone.com" -> 9
      [] source = "pitchfork.com" -> 8
      [] source = "variety.com" -> 7
      [] source = "musicbusinessworldwide.com" -> 6
      [] source = "consequence.net" -> 5
      [] source = "nme.com" -> 4
      [] source = "stereogum.com" -> 3
      [] OTHER -> 1

\* len(title) + title.count(' ')
title_quality(news) == CharLen(news.title) + CountSpaces(news.title)

content_length(news) == CharLen(news.description)

\* priority, title quality and content length of an item
score_terms(news) ==
    <<source_priority(news.source), title_quality(news), content_length(news)>>

\* the exact value, in hundredths, of
\* priority * 3 + title_quality * 0.1 + content_length * 0.01
ExactScore(terms) == 300 * terms[1] + 10 * terms[2] + terms[3]

\* Pairs of terms whose exact scores are equal and whose binary64 scores are
\* not, the first being above the second: 10*3 + 26*0.1 + 20*0.01 is
\* 32.800000000000004 and 10*3 + 28*0.1 + 0*0.01 is 32.8.  Scores whose
\* exact values differ are ordered by binary64 as the exact values are (for
\* title qualities and content lengths up to 40).
ScoreTieAbove == { << <<10, 26, 20>>, <<10, 28, 0>> >> }

ScoreAtLeast(new_terms, existing_terms) ==
    ExactScore(new_terms) >= ExactScore(existing_terms)

\* new_score > existing_score
ScoreAbove(new_terms, existing_terms) ==
    \/ ExactScore(new_terms) > ExactScore(existing_terms)
    \/ <<new_terms, existing_terms>> \in ScoreTieAbove

should_replace_news_by_link(existing, new) ==
    LET existing_priority == source_priority(existing.source)
        new_priority == source_priority(new.source)
        both_parse == Parses(existing.published_date)
                        /\ Parses(new.published_date)
        time_diff == new.published_date.t - existing.published_date.t
    IN  IF new_priority - existing_priority >= 2 THEN TRUE
        ELSE IF existing_priority - new_priority >= 2 THEN FALSE
        ELSE IF both_parse /\ time_diff > 3600 THEN TRUE
        ELSE IF both_parse /\ time_diff < -3600 THEN FALSE
        ELSE \/ ScoreAbove(score_terms(new), score_terms(existing))
             \/ new.link.host # "" /\ existing.link.host = ""

should_replace_news(existing, new) ==
    LET existing_priority == source_priority(existing.source)
        new_priority == source_priority(new.source)
        both_parse == Parses(existing.published_date)
                        /\ Parses(new.published_date)
        time_diff == new.published_date.t - existing.published_date.t
    IN  IF new_priority - existing_priority >= 2 THEN TRUE
        ELSE IF existing_priority - new_priority >= 2 THEN FALSE
        ELSE IF both_parse /\ time_diff > 3600 THEN TRUE
        ELSE IF both_parse /\ time_diff < -3600 THEN FALSE
        ELSE ScoreAbove(score_terms(new), score_terms(existing))

\* lines 386-398: the try block catches ValueError only.  When the tiers do
\* not decide, strptime is given the time of existing and, if that one
\* parses, the time of new; a time that is None raises TypeError, which
\* leaves should_replace_news
should_replace_news_raises(existing, new) ==
    LET existing_priority == source_priority(existing.source)
        new_priority == source_priority(new.source)
    IN  /\ new_priority - existing_priority < 2
        /\ existing_priority - new_priority < 2
        /\ \/ NotAString(existing.published_date)
           \/ /\ Parses(existing.published_date)
              /\ NotAString(new.published_date)

\* str order of two sort keys x.get('published_date', '') that are strings:
\* '' is below every other string, and a formatted time, which starts with
\* a digit, is below 'not-a-date'
DateBefore(d1, d2) ==
    \/ d1.kind \in {"empty", "absent"} /\ d2.kind \in {"time", "bad"}
    \/ d1.kind = "time" /\ d2.kind = "time" /\ d1.t < d2.t
    \/ d1.kind = "time" /\ d2.kind = "bad"

\* sorted raises TypeError: a key that is None is compared with another key
SortRaises(seq) ==
    /\ Len(seq) >= 2
    /\ \E i \in 1..Len(seq) : NotAString(seq[i].published_date)

\* ascending and then reversed: items with equal keys change places
SortedThenReversed(seq, before) ==
    LET n == Len(seq)
        pos(i) == 1 + Cardinality({j \in 1..n :
                        \/ before[i, j]
                        \/ ~before[j, i] /\ j > i})
    IN  [k \in 1..n |-> seq[CHOOSE i \in 1..n : pos(i) = k]]

\* sorted(seq, key=..., reverse=True), where before[i, j] says that the key of
\* seq[i] is below the key of seq[j]: descending, and items with equal keys
\* keep the order they have in seq
SortedDescending(seq, before) ==
    LET n == Len(seq)
        pos(i) == 1 + Cardinality({j \in 1..n :
                        \/ before[i, j]
                        \/ ~before[j, i] /\ j < i})
    IN  [k \in 1..n |-> seq[CHOOSE i \in 1..n : pos(i) = k]]

\* list.remove(x): the first element equal to x is taken out
ListKeep(seq, x) == seq

ListRemove(seq, x) ==
    LET i == CHOOSE k \in 1..Len(seq) :
                 seq[k] = x /\ \A m \in 1..(k - 1) : seq[m] # x
    IN  [k \in 1..(Len(seq) - 1) |-> IF k < i THEN seq[k] ELSE seq[k + 1]]

\* the loop at line 320 compares news with the accepted items, in order, up
\* to the first duplicate: its index, 0 when there is none
FirstDuplicate(news, unique) ==
    LET dup == [k \in 1..Len(unique) |->
                   is_duplicate_advanced(news, unique[k])]
    IN  IF \E k \in 1..Len(unique) : dup[k]
        THEN CHOOSE k \in 1..Len(unique) :
                 dup[k] /\ \A m \in 1..(k - 1) : ~dup[m]
        ELSE 0

----------------------------------------------------------------------------
(* The classifier's importance score.  A score is a whole number of        *)
(* ten-thousandths: 5325 is 0.5325; a weight or component is a whole       *)
(* number of hundredths.                                                   *)

\* f"{title} {description}" of the lower-case title and description
text_combined(news) ==
    StrLower(news.title) \o <<" ">> \o StrLower(news.description)

\* `domain in source_lower` for the sources of the model
DomainIn(domain, source_lower) ==
    \/ source_lower = domain
    \/ source_lower = "www." \o domain

source_weights ==
    << <<"billboard.com", 95>>, <<"variety.com", 90>>,
       <<"rollingstone.com", 88>>, <<"pitchfork.com", 85>>,
       <<"musicbusinessworldwide.com", 85>>, <<"consequence.net", 80>>,
       <<"nme.com", 75>>, <<"stereogum.com", 75>> >>

\* the weight of the first domain of source_weights that source contains
calculate_source_credibility(source) ==
    LET source_lower == Lower(source)
        found == {i \in 1..Len(source_weights) :
                     DomainIn(source_weights[i][1], source_lower)}
    IN  IF found = {} THEN 50
        ELSE source_weights[CHOOSE i \in found : \A j \in found : i <= j][2]

mega_stars ==
    << <<"taylor", " ", "swift">>, <<"bts">>, <<"blackpink">>, <<"drake">>,
       <<"billie", " ", "eilish">> >>

major_artists ==
    << <<"ariana", " ", "grande">>, <<"dua", " ", "lipa">>,
       <<"travis", " ", "scott">>, <<"kendrick", " ", "lamar">>,
       <<"metallica">> >>

\* list(self.known_artists.keys())
known_artists ==
    << <<"taylor", " ", "swift">>, <<"ariana", " ", "grande">>,
       <<"billie", " ", "eilish">>, <<"dua", " ", "lipa">>,
       <<"olivia", " ", "rodrigo">>, <<"drake">>, <<"travis", " ", "scott">>,
       <<"kid", " ", "cudi">>, <<"kendrick", " ", "lamar">>, <<"bts">>,
       <<"blackpink">>, <<"twice">>, <<"stray", " ", "kids">>,
       <<"newjeans">>, <<"ive">>, <<"aespa">>, <<"metallica">>,
       <<"my", " ", "chemical", " ", "romance">>,
       <<"mayday", " ", "parade">>, <<"mother", " ", "love", " ", "bone">>,
       <<"kaytranada">>, <<"ethel", " ", "cain">>, <<"wet", " ", "leg">>,
       <<"chappell", " ", "roan">>, <<"doechii">>, <<"remble">>, <<"naeem">>,
       <<"chance", " ", "the", " ", "rapper">>, <<"casey", " ", "dienel">>,
       <<"sombr">>, <<"bobby", " ", "whitlock">>, <<"charli", " ", "xcx">>,
       <<"yung", " ", "lean">>, <<"spank", " ", "rock">>,
       <<"florence", " ", "welch">>, <<"deftones">>, <<"dijon">>,
       <<"open", " ", "mike", " ", "eagle">>, <<"snail", " ", "mail">>,
       <<"wolf", " ", "alice">>, <<"travis", " ", "kelce">>,
       <<"ozzy", " ", "osbourne">>, <<"robert", " ", "trujillo">> >>

industry_patterns ==
    << <<"grammy">>, <<"billboard">>, <<"platinum">>, <<"chart">> >>

AnyIn(terms, text) == \E i \in 1..Len(terms) : TermIn(terms[i], text)

calculate_artist_influence_dynamic(text) ==
    IF AnyIn(mega_stars, text) THEN 100
    ELSE IF AnyIn(major_artists, text) THEN 90
    ELSE IF AnyIn(known_artists, text) THEN 70
    ELSE IF AnyIn(industry_patterns, text) THEN 80
    ELSE 50

high_impact_keywords ==
    << <<"breaking">>, <<"exclusive">>, <<"first">>, <<"debuts">>,
       <<"announces">>, <<"record", "-", "breaking">> >>

industry_keywords ==
    << <<"album">>, <<"chart">>, <<"award">>, <<"tour">> >>

Min(a, b) == IF a < b THEN a ELSE b

\* min(sum(0.1 for kw in high_impact_keywords if kw in text), 0.8)
keyword_score(text) ==
    Min(10 * Cardinality({i \in 1..Len(high_impact_keywords) :
                             TermIn(high_impact_keywords[i], text)}), 80)

industry_score(text) == IF AnyIn(industry_keywords, text) THEN 70 ELSE 0

recency_score == 80

social_score == 30

calculate_importance_score_unweighted(news) ==
    calculate_source_credibility(news.source) * 100
      + keyword_score(text_combined(news)) * 100
      + calculate_artist_influence_dynamic(text_combined(news)) * 100
      + industry_score(text_combined(news)) * 100
      + recency_score * 100
      + social_score * 100

calculate_importance_score(news) ==
    Min(calculate_source_credibility(news.source) * 25
          + keyword_score(text_combined(news)) * 20
          + calculate_artist_influence_dynamic(text_combined(news)) * 25
          + industry_score(text_combined(news)) * 15
          + recency_score * 10
          + social_score * 5,
        10000)

\* self.category_keywords, in the order of the dict.  The Korean keywords of
\* each list are left out: no text of the model holds a Korean character.
category_keywords ==
    << <<"NEWS", << <<"announces">>, <<"releases">>, <<"debuts">>, <<"signs">>,
                    <<"tour">>, <<"concert">>, <<"collaboration">> >> >>,
       <<"REPORT", << <<"chart">>, <<"sales">>, <<"revenue">>, <<"market">>,
                      <<"statistics">>, <<"data">>, <<"analysis">> >> >>,
       <<"INSIGHT", << <<"trend">>, <<"prediction">>, <<"future">>,
                       <<"impact">>, <<"influence">>, <<"change">> >> >>,
       <<"INTERVIEW", << <<"interview">>, <<"talks">>, <<"says">>,
                         <<"reveals">>, <<"discusses">>, <<"exclusive">> >> >>,
       <<"COLUMN", << <<"opinion">>, <<"commentary">>, <<"editorial">>,
                      <<"perspective">>, <<"review">> >> >> >>

\* the number of keywords of the list that the text holds
CategoryScore(keywords, text) ==
    Cardinality({i \in 1..Len(keywords) : TermIn(keywords[i], text)})

classify_category_last_on_tie(title, description) ==
    LET text == StrLower(title \o <<" ">> \o description)
        scores == [c \in 1..Len(category_keywords) |->
                      CategoryScore(category_keywords[c][2], text)]
        best == CHOOSE c \in 1..Len(category_keywords) :
                    /\ \A d \in 1..Len(category_keywords) : scores[d] <= scores[c]
                    /\ \A d \in (c + 1)..Len(category_keywords) :
                           scores[d] < scores[c]
    IN  IF scores[best] > 0 THEN category_keywords[best][1] ELSE "NEWS"

\* max(scores, key=scores.get): the first category with the highest score
classify_category(title, description) ==
    LET text == StrLower(title \o <<" ">> \o description)
        scores == [c \in 1..Len(category_keywords) |->
                      CategoryScore(category_keywords[c][2], text)]
        best == CHOOSE c \in 1..Len(category_keywords) :
                    /\ \A d \in 1..Len(category_keywords) : scores[d] <= scores[c]
                    /\ \A d \in 1..(c - 1) : scores[d] < scores[c]
    IN  IF scores[best] > 0 THEN category_keywords[best][1] ELSE "NEWS"

\* the lists of the "direct mapping" of extract_tags, in the order of its elif
\* chain; no name is on two lists
artist_genres ==
    << <<"POP", << <<"taylor", " ", "swift">>, <<"ariana", " ", "grande">>,
                   <<"billie", " ", "eilish">>, <<"dua", " ", "lipa">>,
                   <<"olivia", " ", "rodrigo">>, <<"charli", " ", "xcx">> >> >>,
       <<"HIP-HOP", << <<"drake">>, <<"travis", " ", "scott">>,
                       <<"kendrick", " ", "lamar">>, <<"kid", " ", "cudi">>,
                       <<"chance", " ", "the", " ", "rapper">>, <<"remble">>,
                       <<"doechii">> >> >>,
       <<"K-POP", << <<"bts">>, <<"blackpink">>, <<"twice">>,
                     <<"stray", " ", "kids">>, <<"newjeans">>, <<"ive">>,
                     <<"aespa">> >> >>,
       <<"ROCK", << <<"metallica">>, <<"my", " ", "chemical", " ", "romance">>,
                    <<"mayday", " ", "parade">>, <<"deftones">>,
                    <<"wet", " ", "leg">> >> >>,
       <<"ELECTRONIC", << <<"kaytranada">> >> >> >>

\* self.genre_keywords, self.industry_keywords and self.region_keywords, in the
\* order of the dicts and without their Korean keywords
genre_keywords ==
    << <<"K-POP", <<
          <<"k", "-", "pop">>, <<"kpop">>, <<"korean", " ", "pop">>,
          <<"bts">>, <<"blackpink">>, <<"twice">>, <<"stray", " ", "kids">>,
          <<"newjeans">>, <<"ive">>, <<"aespa">>, <<"itzy">>,
          <<"seventeen">>, <<"txt">>, <<"le", " ", "sserafim">>, <<"nmixx">>,
          <<"gidle">>, <<"red", " ", "velvet">>, <<"enhypen">>, <<"nct">>,
          <<"riize">>, <<"hallyu">> >> >>,
       <<"POP", <<
          <<"taylor", " ", "swift">>, <<"ariana", " ", "grande">>,
          <<"dua", " ", "lipa">>, <<"billie", " ", "eilish">>,
          <<"olivia", " ", "rodrigo">>, <<"sabrina", " ", "carpenter">>,
          <<"chappell", " ", "roan">>, <<"pop", " ", "music">>,
          <<"mainstream", " ", "pop">>, <<"charli", " ", "xcx">> >> >>,
       <<"HIP-HOP", <<
          <<"drake">>, <<"kendrick", " ", "lamar">>,
          <<"travis", " ", "scott">>, <<"kid", " ", "cudi">>,
          <<"cardi", " ", "b">>, <<"migos">>, <<"doechii">>, <<"remble">>,
          <<"hip", "-", "hop">>, <<"rap">>, <<"rapper">>,
          <<"chance", " ", "the", " ", "rapper">> >> >>,
       <<"ROCK", <<
          <<"metallica">>, <<"my", " ", "chemical", " ", "romance">>,
          <<"mother", " ", "love", " ", "bone">>,
          <<"mayday", " ", "parade">>, <<"rock">>, <<"metal">>, <<"punk">>,
          <<"alternative">>, <<"indie", " ", "rock">>, <<"deftones">>,
          <<"wet", " ", "leg">> >> >>,
       <<"R&B", <<
          <<"r", "&", "b">>, <<"rnb">>, <<"soul">>, <<"neo", "-", "soul">>,
          <<"the", " ", "weeknd">>, <<"sza">>, <<"frank", " ", "ocean">> >> >>,
       <<"ELECTRONIC", <<
          <<"kaytranada">>, <<"electronic">>, <<"edm">>, <<"house">>,
          <<"techno">>, <<"dubstep">> >> >> >>

industry_tag_keywords ==
    << <<"STREAMING", <<
          <<"spotify">>, <<"apple", " ", "music">>,
          <<"youtube", " ", "music">>, <<"streaming">>, <<"playlist">> >> >>,
       <<"LABEL", <<
          <<"record", " ", "label">>, <<"signs">>, <<"contract">>,
          <<"deal">>, <<"universal">>, <<"sony">>, <<"warner">> >> >>,
       <<"TOUR", <<
          <<"tour">>, <<"concert">>, <<"live">>, <<"venue">>, <<"tickets">>,
          <<"sold", " ", "out">> >> >>,
       <<"ALBUM", <<
          <<"album">>, <<"ep">>, <<"single">>, <<"release">>, <<"track">>,
          <<"song">> >> >>,
       <<"CHART", <<
          <<"billboard">>, <<"hot", " ", "100">>, <<"chart">>,
          <<"number", " ", "one">>, <<"top", " ", "10">> >> >>,
       <<"AWARD", <<
          <<"grammy">>, <<"award">>, <<"nomination">>, <<"wins">>,
          <<"ceremony">> >> >> >>

region_keywords ==
    << <<"KOREA", <<
          <<"korea">>, <<"korean">>, <<"seoul">>, <<"k", "-", "pop">>,
          <<"kpop">>, <<"hallyu">> >> >>,
       <<"US", <<
          <<"america">>, <<"american">>, <<"usa">>,
          <<"united", " ", "states">>, <<"billboard">>, <<"hollywood">> >> >>,
       <<"UK", <<
          <<"britain">>, <<"british">>, <<"uk">>,
          <<"united", " ", "kingdom">>, <<"london">> >> >>,
       <<"JAPAN", <<
          <<"japan">>, <<"japanese">>, <<"tokyo">>, <<"jpop">>,
          <<"j", "-", "pop">> >> >>,
       <<"GLOBAL", <<
          <<"global">>, <<"worldwide">>, <<"international">>,
          <<"world", " ", "tour">> >> >> >>

\* the lower-case names of the known artists that extract_artists_from_text
\* finds.  Its pattern-based fallback runs only when no known artist is in the
\* text and then finds no name of artist_genres, all of which are known
\* artists; its cut to two names drops nothing for the texts of the model,
\* which hold at most two known artists.
extract_artists_from_text(text) ==
    {known_artists[i] : i \in {j \in 1..Len(known_artists) :
                                  TermIn(known_artists[j], StrLower(text))}}

\* the tags as sets: list(set(...)) has no order of its own, and the cuts
\* [:2], [:3] and [:2] drop nothing for the texts of the model
extract_tags_region_last(title, description) ==
    LET text == StrLower(title \o <<" ">> \o description)
        artists == extract_artists_from_text(title \o <<" ">> \o description)
        by_artist == {artist_genres[g][1] :
                         g \in {h \in 1..Len(artist_genres) :
                                   artists \cap Range(artist_genres[h][2]) # {}}}
        matching == {g \in 1..Len(genre_keywords) :
                        AnyIn(genre_keywords[g][2], text)}
        genre_tags ==
            IF by_artist # {} THEN by_artist
            ELSE IF matching = {} THEN {}
            ELSE {genre_keywords[CHOOSE g \in matching :
                                    \A h \in matching : g <= h][1]}
        industry_tags ==
            {industry_tag_keywords[n][1] :
                n \in {m \in 1..Len(industry_tag_keywords) :
                          AnyIn(industry_tag_keywords[m][2], text)}}
        region_tags ==
            IF genre_tags # {} \/ industry_tags # {} THEN {}
            ELSE {region_keywords[n][1] :
                     n \in {m \in 1..Len(region_keywords) :
                               AnyIn(region_keywords[m][2], text)}}
    IN  [genre |-> genre_tags, industry |-> industry_tags,
         region |-> region_tags]

extract_tags(title, description) ==
    LET text == StrLower(title \o <<" ">> \o description)
        artists == extract_artists_from_text(title \o <<" ">> \o description)
        by_artist == {artist_genres[g][1] :
                         g \in {h \in 1..Len(artist_genres) :
                                   artists \cap Range(artist_genres[h][2]) # {}}}
        matching == {g \in 1..Len(genre_keywords) :
                        AnyIn(genre_keywords[g][2], text)}
        genre_tags ==
            IF by_artist # {} THEN by_artist
            ELSE IF matching = {} THEN {}
            ELSE {genre_keywords[CHOOSE g \in matching :
                                    \A h \in matching : g <= h][1]}
        industry_tags ==
            {industry_tag_keywords[n][1] :
                n \in {m \in 1..Len(industry_tag_keywords) :
                          AnyIn(industry_tag_keywords[m][2], text)}}
        region_tags ==
            (IF "K-POP" \in genre_tags THEN {"KOREA"} ELSE {})
              \cup {region_keywords[n][1] :
                       n \in {m \in 1..Len(region_keywords) :
                                 /\ region_keywords[m][1] # "KOREA"
                                 /\ AnyIn(region_keywords[m][2], text)}}
    IN  [genre |-> genre_tags, industry |-> industry_tags,
         region |-> region_tags]

\* dict.get(key, default)
Get(news, key, default) == IF key \in DOMAIN news THEN news[key] ELSE default

\* {**a, **b}
Merge(a, b) ==
    [f \in DOMAIN a \cup DOMAIN b |-> IF f \in DOMAIN b THEN b[f] ELSE a[f]]

\* the item the try block of process_news_list appends; its summary text is
\* not modelled
processed_item(news) ==
    Merge(news,
          [category |-> classify_category(news.title, news.description),
           tags |-> extract_tags(news.title, news.description),
           importance_score |-> calculate_importance_score(news),
           summary_type |-> "rule_based"])

\* the item the except block of process_news_list appends
fallback_item(news) ==
    Merge(news,
          [category |-> "NEWS",
           tags |-> [genre |-> {}, industry |-> {}, region |-> {}],
           importance_score |-> 5000,
           summary_type |-> "fallback"])

\* the try block raises for the item: classify_category and extract_tags
\* format a None, calculate_importance_score calls .lower() on it
item_fails(news) == IsNone(news.title) \/ IsNone(news.description)

\* the except block raises in its turn, out of process_news_list: it slices
\* news.get('title', '') for the summary
process_news_list_raises(list) ==
    \E i \in 1..Len(list) : IsNone(list[i].title)

process_news_list(list) ==
    [i \in 1..Len(list) |->
        IF item_fails(list[i]) THEN fallback_item(list[i])
        ELSE processed_item(list[i])]

\* news['trending_score'] = news.get('importance_score', 0)
WithTrendingScore(news) ==
    Merge(news, [trending_score |-> Get(news, "importance_score", 0)])

\* the order of the sort keys seq[i].get(key, 0)
ScoreBefore(seq, key) ==
    [i \in 1..Len(seq), j \in 1..Len(seq) |->
        Get(seq[i], key, 0) < Get(seq[j], key, 0)]

SliceInclusive(seq, n) == SubSeq(seq, 1, Min(n + 1, Len(seq)))

\* seq[:n] for n >= 0
Slice(seq, n) == SubSeq(seq, 1, Min(n, Len(seq)))

select_top_news_by_importance(list, max_total) ==
    Slice(SortedDescending(list, ScoreBefore(list, "importance_score")),
          max_total)

\* the list with the trending scores written into its items, and the selection
select_trending_news(list, max_total) ==
    LET scored == [i \in 1..Len(list) |-> WithTrendingScore(list[i])]
    IN  [news_list |-> scored,
         selected_news |->
             Slice(SortedDescending(scored,
                                    ScoreBefore(scored, "trending_score")),
                   max_total)]

----------------------------------------------------------------------------
(* The pipeline *)

music_keywords ==
    << <<"artist">>, <<"band">>, <<"singer">>, <<"musician">>, <<"album">>,
       <<"song">>, <<"track">>, <<"music">>, <<"concert">>, <<"tour">>,
       <<"festival">>, <<"record">>, <<"label">>, <<"streaming">>,
       <<"spotify">>, <<"apple", " ", "music">>, <<"youtube", " ", "music">>,
       <<"billboard">>, <<"chart">>, <<"grammy">>, <<"award">>,
       <<"producer">>, <<"songwriter">>, <<"collaboration">>, <<"release">>,
       <<"debut">>, <<"single">>, <<"ep">>, <<"lp">>, <<"vinyl">>,
       <<"digital">>, <<"radio">>, <<"playlist">> >>

\* min(keyword_matches / 5, 1.0) * 0.6 + 0.8 * 0.4, in thousandths
calculate_music_relevance(title, description) ==
    LET text == StrLower(title \o <<" ">> \o description)
        keyword_matches ==
            Cardinality({i \in 1..Len(music_keywords) :
                            TermIn(music_keywords[i], text)})
    IN  120 * Min(keyword_matches, 5) + 320

\* the news_item fetch_rss_feed builds of an entry of the feed at netloc; its
\* id, entities, feed_url and collected_at are not modelled
news_item(title, description, link, netloc, pub_time) ==
    [title |-> title, description |-> description, link |-> link,
     source |-> netloc, published_date |-> Time(pub_time),
     relevance_score |-> calculate_music_relevance(title, description)]

\* the methods that class AdvancedClassifier defines
AdvancedClassifierMethods ==
    {"__init__", "classify_category", "extract_artists_from_text",
     "extract_tags", "generate_korean_summary", "extract_artist_with_context",
     "extract_song_title", "calculate_importance_score",
     "calculate_source_credibility", "process_news_list",
     "select_top_news_by_importance", "select_trending_news",
     "calculate_artist_influence_dynamic", "extract_album_title_improved",
     "process_news_list_simplified"}

\* bool(news.get(field)) for the fields title, link and source
HasRequiredFields(news) ==
    /\ news.title # <<>> /\ ~IsNone(news.title)
    /\ news.link # NoLink
    /\ news.source # ""

_validate_news_quality(list) == SelectSeq(list, HasRequiredFields)

----------------------------------------------------------------------------
(* Bounded inputs *)

MaxTitleLen == 4

\* all sequences over S of length 0..n
SeqsUpTo(S, n) == UNION {[1..k -> S] : k \in 0..n}

TitleTokens == {"new", "Exclusive", "album", "watch", " ", "!"}

RawTitles == {s \in SeqsUpTo(TitleTokens, MaxTitleLen) : WellFormed(s)}

\* title and description of the items
ItemTexts ==
    { << <<"Drake", " ", "Drops", " ", "New", " ", "Song">>, <<>> >>,
      << <<"Exclusive", ":", " ", "Drake", " ", "drops", " ", "song">>, <<>> >>,
      << <<"Indie", " ", "Band", " ", "Announces", " ", "Tour">>,
         <<"Drake", " ", "keeps", " ", "on", " ", "tour", ".">> >>,
      << <<"Indie", " ", "Band", " ", "announces", " ", "tour">>, <<>> >>,
      << <<"indie", " ", "band", " ", "announces", " ", "tour">>, <<>> >>,
      << <<"indie", " ", "band", " ", "announces", " ", "new", " ", "tour">>, <<>> >>,
      << <<"rock", " ", "band", " ", "announces", " ", "tour">>, <<>> >>,
      << <<"rock", " ", "band", " ", "announces", " ", "tour">>,
         <<"Drake", " ", "keeps", " ", "on", " ", "tour", ".">> >>,
      << <<"a", " ", "band", " ", "announces", " ", "tour", " ", "of">>, <<>> >>,
      << <<"band", " ", "announces", " ", "tour">>, <<>> >>,
      << <<"The", " ", "band", " ", "announces", " ", "tour">>, <<>> >>,
      << <<>>, <<>> >> }

LinkA1 == Link("Example.COM", <<"/", "A", "/">>, <<>>)
LinkA2 == Link("example.com", <<"/", "/", "a">>, << <<"utm", "x">> >>)
LinkB  == Link("example.com", <<"/", "b">>, <<>>)
LinkC  == Link("example.com", <<"/", "a">>, << <<"id", "x">> >>)

\* link, source and publication time of the items
ItemOrigins ==
    { <<LinkA1, "billboard.com", Time(0)>>,
      <<LinkA2, "stereogum.com", Time(3600)>>,
      <<LinkB, "billboard.com", Time(7200)>>,
      <<LinkB, "billboard.com", Time(7201)>>,
      <<NoLink, "stereogum.com", NoDate>>,
      <<LinkC, "unknown.org", BadDate>> }

Item(text, origin) ==
    [title |-> text[1], description |-> text[2], link |-> origin[1],
     source |-> origin[2], published_date |-> origin[3]]

Items ==
    {it \in {Item(x, o) : x \in ItemTexts, o \in ItemOrigins} :
        Cardinality(meaningful_words(it.title, it.description)) <= MeaningfulCap}

LinkD  == Link("example.com", <<"/", "d">>, <<>>)

IndieTour == <<"indie", " ", "band", " ", "announces", " ", "tour">>
TheTour == <<"The", " ", "band", " ", "announces", " ", "tour">>
DrakeSong == <<"Drake", " ", "Drops", " ", "New", " ", "Song">>
DrakeExclusive == <<"Exclusive", ":", " ", "Drake", " ", "drops", " ", "song">>
DrakeOnTour == <<"Drake", " ", "keeps", " ", "on", " ", "tour", ".">>

\* the items a batch is drawn from
DedupPool ==
    { Item(<<IndieTour, <<>> >>, <<LinkD, "stereogum.com", Time(9000)>>),
      Item(<<TheTour, <<>> >>, <<LinkB, "billboard.com", Time(7200)>>),
      Item(<<IndieTour, <<>> >>, <<LinkA1, "billboard.com", Time(0)>>),
      Item(<<TheTour, DrakeOnTour>>, <<LinkC, "billboard.com", Time(1800)>>),
      Item(<<DrakeSong, <<>> >>, <<LinkA2, "stereogum.com", Time(3600)>>),
      Item(<<DrakeExclusive, <<>> >>, <<LinkC, "unknown.org", BadDate>>),
      Item(<< <<>>, <<>> >>, <<NoLink, "stereogum.com", NoDate>>) }

MaxBatch == 3

Batches == SeqsUpTo(DedupPool, MaxBatch)

MaxFirst ==
    <<"breaking", " ", "exclusive", " ", "first", " ", "debuts">>
MaxSecond ==
    <<"Drake", " ", "announces", " ", "record", "-", "breaking", " ", "album">>

ChartTalk ==
    <<"exclusive", ":", " ", "band", " ", "says", " ", "chart", " ", "data">>
GlobalBand == <<"global", " ", "band">>

\* the items a list given to the classifier is drawn from
SelectPool ==
    { Item(<<DrakeSong, <<>> >>, <<LinkA2, "stereogum.com", Time(3600)>>),
      Item(<<ChartTalk, <<>> >>, <<LinkB, "nme.com", Time(0)>>),
      Item(<<GlobalBand, <<>> >>, <<LinkD, "unknown.org", NoDate>>),
      Item(<<None, DrakeOnTour>>, <<LinkA1, "billboard.com", Time(0)>>),
      Item(<<DrakeSong, None>>, <<LinkA1, "billboard.com", Time(0)>>),
      Item(<<IndieTour, <<>> >>, <<LinkD, "stereogum.com", Time(9000)>>),
      Item(<<TheTour, DrakeOnTour>>, <<LinkC, "WWW.Billboard.com", Time(1800)>>),
      Item(<<DrakeExclusive, <<>> >>, <<LinkC, "unknown.org", BadDate>>),
      Item(<<MaxFirst, MaxSecond>>, <<LinkB, "billboard.com", Time(7200)>>),
      Item(<< <<>>, <<>> >>, <<NoLink, "", NoDate>>) }

MaxNews == 3

NewsLists == SeqsUpTo(SelectPool, MaxNews)

MaxTotal == 3

RockBand == <<"rock", " ", "band">>

\* the items the feeds deliver
FetchPool ==
    { news_item(DrakeSong, DrakeOnTour, LinkA2, "www.stereogum.com", 3600),
      news_item(IndieTour, RockBand, LinkD, "www.billboard.com", 9000),
      news_item(TheTour, DrakeOnTour, NoLink, "pitchfork.com", 7200),
      news_item(IndieTour, RockBand, LinkA1, "pitchfork.com", 0) }

MaxFetched == 3

FetchedLists == SeqsUpTo(FetchPool, MaxFetched)

\* links to the same host and path and to another path, with and without
\* query parameters
UrlLinks ==
    { LinkA1, LinkA2, LinkB, LinkC, NoLink,
      Link("example.com", <<"/", "a">>, << <<"id", "y">> >>),
      Link("example.com", <<"/", "a">>, << <<"utm", "y">> >>),
      Link("example.com", <<"/", "a">>, << <<"utm", "y">>, <<"id", "x">> >>),
      Link("example.com", <<"/", "a">>, << <<"post_id", "x">>, <<"id", "x">> >>) }

\* two stories, each under every link
UrlItems ==
    { Item(<<title, <<>> >>, <<link, "unknown.org", NoDate>>) :
        title \in {DrakeSong, IndieTour}, link \in UrlLinks }

TaylorAlbum ==
    <<"Taylor", " ", "Swift", " ", "Announces", " ", "New", " ", "Album">>
TaylorShowgirl ==
    TaylorAlbum
      \o <<",", " ", "The", " ", "Life", " ", "of", " ", "a", " ", "Showgirl">>

\* the two reports of one story, given a source and a publication time
StoryA(source, date) ==
    Item(<<TaylorAlbum, RockBand>>, <<LinkD, source, date>>)
StoryB(source, date) ==
    Item(<<TaylorShowgirl, RockBand>>, <<LinkB, source, date>>)

LinkE  == Link("example.com", <<"/", "e">>, <<>>)
LinkF  == Link("example.com", <<"/", "f">>, <<>>)

\* '/': a link whose normalized URL is empty
LinkRoot == Link("", <<"/">>, <<>>)

\* a report of the tour, given its link and its publication time
DatedTour(link, date) ==
    Item(<<IndieTour, <<>> >>, <<link, "billboard.com", date>>)

\* the items a batch of reports is drawn from
StoryPool ==
    { StoryA("billboard.com", Time(0)), StoryB("billboard.com", Time(0)),
      StoryA("unknown.org", Time(0)), StoryB("other.org", Time(0)),
      DatedTour(LinkA1, Time(0)), DatedTour(LinkE, NullDate),
      DatedTour(LinkF, AbsentDate), DatedTour(LinkB, NoDate),
      DatedTour(LinkD, BadDate),
      Item(<<DrakeSong, <<>> >>, <<LinkRoot, "stereogum.com", Time(3600)>>),
      Item(<<RockBand, <<>> >>, <<NoLink, "nme.com", Time(0)>>),
      Item(<<DrakeSong, <<>> >>, <<NoLink, "stereogum.com", Time(7200)>>) }

MaxStory == 2

StoryBatches == SeqsUpTo(StoryPool, MaxStory)

----------------------------------------------------------------------------
(* normalize_title applied once and twice *)

TitleOff ==
    /\ t_pc = "off"
    /\ t_title = <<>>
    /\ t_once = <<>>
    /\ t_twice = <<>>

PairOff ==
    /\ p_pc = "off"
    /\ p_a = <<>>
    /\ p_b = <<>>
    /\ p_dup = FALSE
    /\ p_sim = <<>>
    /\ p_dup_rev = FALSE
    /\ p_sim_rev = <<>>

DedupOff ==
    /\ d_pc = "off"
    /\ news_list = <<>>
    /\ sorted_news = <<>>
    /\ d_next = 0
    /\ unique_news = <<>>
    /\ removed_count = 0
    /\ url_cache = {}

SelectOff ==
    /\ s_pc = "off"
    /\ s_news = <<>>
    /\ s_max_total = 0
    /\ selected_news = <<>>

RunOff ==
    /\ r_pc = "off"
    /\ r_news = <<>>
    /\ r_stage = 0
    /\ r_metrics = [total_news_collected |-> 0, final_news_count |-> 0]
    /\ r_report = [success |-> FALSE, error |-> ""]

ResolveOff ==
    /\ v_pc = "off"
    /\ v_existing = <<>>
    /\ v_new = <<>>
    /\ v_result = ""
    /\ v_again = ""
    /\ v_swapped = ""

HashOff ==
    /\ h_pc = "off"
    /\ h_first = <<>>
    /\ h_second = <<>>
    /\ h_hash_first = <<>>
    /\ h_hash_second = <<>>

SummarizerOff ==
    /\ u_pc = "off"
    /\ u_class = ""
    /\ request_count = 0
    /\ u_sent = 0
    /\ u_calls = 0

DeliveryOff ==
    /\ n_pc = "off"
    /\ n_test_mode = FALSE
    /\ n_client = FALSE
    /\ n_message = <<>>
    /\ n_html = ""
    /\ n_posts = <<>>
    /\ n_slack = ""
    /\ n_email = ""
    /\ n_results = [slack_success |-> FALSE, email_success |-> FALSE]

CoreOff ==
    /\ TitleOff
    /\ PairOff
    /\ DedupOff
    /\ SelectOff
    /\ RunOff

ExtOff ==
    /\ ResolveOff
    /\ HashOff
    /\ SummarizerOff
    /\ DeliveryOff

InitTitle ==
    /\ t_pc = "in"
    /\ t_title \in RawTitles
    /\ t_once = <<>>
    /\ t_twice = <<>>
    /\ PairOff
    /\ DedupOff
    /\ SelectOff
    /\ RunOff
    /\ ExtOff

NormalizeOnce ==
    /\ t_pc = "in"
    /\ t_once' = normalize_title(t_title)
    /\ t_pc' = "once"
    /\ UNCHANGED <<t_title, t_twice, pairVars, dedupVars, selectVars, runVars, extVars>>

NormalizeTwice ==
    /\ t_pc = "once"
    /\ t_twice' = normalize_title(t_once)
    /\ t_pc' = "twice"
    /\ UNCHANGED <<t_title, t_once, pairVars, dedupVars, selectVars, runVars, extVars>>

NextTitle == NormalizeOnce \/ NormalizeTwice

SpecTitle == InitTitle /\ [][NextTitle]_vars

\* C3: normalizing a normalized title changes nothing
C3_Idempotent == t_pc = "twice" => t_twice = t_once

----------------------------------------------------------------------------
(* The detector applied to two items, in both argument orders *)

InitPair ==
    /\ p_pc = "in"
    /\ p_a \in Items
    /\ p_b \in Items
    /\ p_dup = FALSE
    /\ p_sim = <<>>
    /\ p_dup_rev = FALSE
    /\ p_sim_rev = <<>>
    /\ TitleOff
    /\ DedupOff
    /\ SelectOff
    /\ RunOff
    /\ ExtOff

Compare ==
    /\ p_pc = "in"
    /\ p_dup' = is_duplicate_advanced(p_a, p_b)
    /\ p_sim' = calculate_title_similarity(p_a.title, p_b.title)
    /\ p_pc' = "compared"
    /\ UNCHANGED <<p_a, p_b, p_dup_rev, p_sim_rev, titleVars, dedupVars,
                   selectVars, runVars, extVars>>

CompareSwapped ==
    /\ p_pc = "compared"
    /\ p_dup_rev' = is_duplicate_advanced(p_b, p_a)
    /\ p_sim_rev' = calculate_title_similarity(p_b.title, p_a.title)
    /\ p_pc' = "swapped"
    /\ UNCHANGED <<p_a, p_b, p_dup, p_sim, titleVars, dedupVars,
                   selectVars, runVars, extVars>>

NextPair == Compare \/ CompareSwapped

SpecPair == InitPair /\ [][NextPair]_vars

\* the detector applied to two items that differ in their links
InitUrl ==
    /\ p_pc = "in"
    /\ p_a \in UrlItems
    /\ p_b \in UrlItems
    /\ p_dup = FALSE
    /\ p_sim = <<>>
    /\ p_dup_rev = FALSE
    /\ p_sim_rev = <<>>
    /\ TitleOff
    /\ DedupOff
    /\ SelectOff
    /\ RunOff
    /\ ExtOff

SpecUrl == InitUrl /\ [][NextPair]_vars

\* C2: the duplicate verdict and the title similarity do not depend on the
\* order of the two arguments
C2_Symmetric ==
    p_pc = "swapped" => (p_dup = p_dup_rev /\ p_sim = p_sim_rev)

\* two items of one source, published more than two hours apart, the earlier
\* given first, with similar but different titles: compared in both orders
C2_Witness ==
    /\ p_pc = "swapped"
    /\ p_a.source = p_b.source
    /\ Parses(p_a.published_date) /\ Parses(p_b.published_date)
    /\ p_b.published_date.t - p_a.published_date.t > 7200
    /\ p_a.title # p_b.title
    /\ SimAtLeast(p_sim, 50)
    /\ ~p_dup

\* the six rules, as the specification words them
SameUrl(a, b) ==
    normalize_url(a.link) = normalize_url(b.link) /\ normalize_url(a.link) # <<>>

SameArtist(a, b) ==
    \E artist \in Range(popular_artists) :
        /\ TermIn(artist, StrLower(a.title \o <<" ">> \o a.description))
        /\ TermIn(artist, StrLower(b.title \o <<" ">> \o b.description))

TitleSim(a, b) == calculate_title_similarity(a.title, b.title)

SameFingerprint(a, b) ==
    generate_content_hash(a.title, a.description)
        = generate_content_hash(b.title, b.description)

\* the keyword overlap of two items, 0 when neither has a keyword
KeywordOverlap(a, b) ==
    LET ka == extract_core_keywords(a.title, a.description)
        kb == extract_core_keywords(b.title, b.description)
    IN  IF ka \cup kb = {} THEN <<0, 1>> ELSE JaccardRatio(ka, kb)

AtMostTwoHoursApart(a, b) ==
    /\ Parses(a.published_date) /\ Parses(b.published_date)
    /\ a.published_date.t - b.published_date.t <= 7200
    /\ b.published_date.t - a.published_date.t <= 7200

Rule1(a, b) == SameUrl(a, b)
Rule2(a, b) == SameArtist(a, b) /\ SimAtLeast(TitleSim(a, b), 60)
Rule3(a, b) == SimAtLeast(TitleSim(a, b), 80)
Rule4(a, b) == SameFingerprint(a, b)
Rule5(a, b) ==
    /\ SimAtLeast(TitleSim(a, b), 65)
    /\ CombinedAtLeast75(TitleSim(a, b), KeywordOverlap(a, b))
Rule6(a, b) ==
    /\ a.source = b.source
    /\ SimAtLeast(TitleSim(a, b), 50)
    /\ AtMostTwoHoursApart(a, b)

\* C8: the verdict is true exactly when one of the six rules holds
C8_SixRules ==
    p_pc \in {"compared", "swapped"} =>
        (p_dup <=> \/ Rule1(p_a, p_b) \/ Rule2(p_a, p_b) \/ Rule3(p_a, p_b)
                   \/ Rule4(p_a, p_b) \/ Rule5(p_a, p_b) \/ Rule6(p_a, p_b))

\* a verdict that rests on rule 5 alone
C8_Witness ==
    /\ p_pc = "compared"
    /\ p_dup
    /\ Rule5(p_a, p_b)
    /\ ~Rule1(p_a, p_b) /\ ~Rule2(p_a, p_b) /\ ~Rule3(p_a, p_b)
    /\ ~Rule4(p_a, p_b) /\ ~Rule6(p_a, p_b)

\* the Jaccard ratio of the two normalized-title word sets
TitleJaccard(a, b) ==
    JaccardRatio(WordSet(normalize_title(a.title)), WordSet(normalize_title(b.title)))

\* the Jaccard ratio of the two titles' keyword sets, 0 when one is empty
TitleKeywordRatio(a, b) ==
    LET ka == extract_core_keywords(a.title, <<>>)
        kb == extract_core_keywords(b.title, <<>>)
    IN  IF ka = {} \/ kb = {} THEN <<0, 1>> ELSE JaccardRatio(ka, kb)

EitherTitleEmpty(a, b) ==
    WordSet(normalize_title(a.title)) = {} \/ WordSet(normalize_title(b.title)) = {}

\* C9 as stated: the title similarity is the Jaccard ratio of the two word
\* sets (0 when one is empty), so a Jaccard ratio of 0.8 reaches the
\* threshold of rule 3
C9_Jaccard ==
    p_pc = "compared" =>
        LET j == TitleJaccard(p_a, p_b)
        IN  IF EitherTitleEmpty(p_a, p_b)
            THEN SimNum(p_sim) = 0
            ELSE /\ SimNum(p_sim) * j[2] = j[1] * SimDen(p_sim)
                 /\ (5 * j[1] = 4 * j[2] => SimAtLeast(p_sim, 80))

\* C9 amended: the title similarity is 0.7 times the Jaccard ratio of the
\* word sets plus 0.3 times the Jaccard ratio of the titles' keyword sets
\* (0 when one word set is empty); with a word-set ratio of 0.8 the threshold
\* of rule 3 is reached exactly when the keyword ratio is above 0.8
C9_Weighted ==
    p_pc = "compared" =>
        LET j == TitleJaccard(p_a, p_b)
            k == TitleKeywordRatio(p_a, p_b)
        IN  IF EitherTitleEmpty(p_a, p_b)
            THEN SimNum(p_sim) = 0
            ELSE /\ SimNum(p_sim) * (10 * j[2] * k[2])
                      = (7 * j[1] * k[2] + 3 * k[1] * j[2]) * SimDen(p_sim)
                 /\ (5 * j[1] = 4 * j[2] =>
                        (SimAtLeast(p_sim, 80) <=> 5 * k[1] > 4 * k[2]))

\* two titles with a word-set ratio of 0.8 and different keywords, below the
\* threshold of rule 3
C9_Witness ==
    /\ p_pc = "compared"
    /\ ~EitherTitleEmpty(p_a, p_b)
    /\ 5 * TitleJaccard(p_a, p_b)[1] = 4 * TitleJaccard(p_a, p_b)[2]
    /\ 5 * TitleKeywordRatio(p_a, p_b)[1] < 4 * TitleKeywordRatio(p_a, p_b)[2]
    /\ ~SimAtLeast(p_sim, 80)

SameHostAndPath(u, v) == u.host = v.host /\ u.path = v.path

\* C14: two links with the same host and path have the same canonical URL
\* exactly when they agree on the parameters id, p, article_id and post_id,
\* whatever their other parameters are; two items of different stories
\* whose links disagree on one of the four are not duplicates
C14_AllowListedParamsKept ==
    p_pc = "compared" /\ SameHostAndPath(p_a.link, p_b.link) =>
        /\ normalize_url(p_a.link) = normalize_url(p_b.link)
              <=> filtered_query(p_a.link) = filtered_query(p_b.link)
        /\ (/\ filtered_query(p_a.link) # filtered_query(p_b.link)
            /\ p_a.title # p_b.title)
               => ~p_dup

----------------------------------------------------------------------------
(* remove_duplicates_enhanced *)

InitDedup ==
    /\ d_pc = "start"
    /\ news_list \in Batches \cup StoryBatches
    /\ sorted_news = <<>>
    /\ d_next = 0
    /\ unique_news = <<>>
    /\ removed_count = 0
    /\ url_cache = {}
    /\ TitleOff
    /\ PairOff
    /\ SelectOff
    /\ RunOff
    /\ ExtOff

\* the order of the sort keys of the items of seq
PublishedBefore(seq) ==
    [i \in 1..Len(seq), j \in 1..Len(seq) |->
        DateBefore(seq[i].published_date, seq[j].published_date)]

\* lines 297-305: when sorted raises, the batch is taken in its own order
SortNews ==
    /\ d_pc = "start"
    /\ sorted_news' = IF SortRaises(news_list) THEN news_list
                       ELSE SortedDescending(news_list,
                                             PublishedBefore(news_list))
    /\ d_next' = 1
    /\ d_pc' = "loop"
    /\ UNCHANGED <<news_list, unique_news, removed_count, url_cache,
                   titleVars, pairVars, selectVars, runVars, extVars>>

\* one pass of the loop at line 307 whose item has a URL already seen
UrlCacheHit ==
    /\ d_pc = "loop" /\ d_next <= Len(sorted_news)
    /\ \E normalized_url \in {normalize_url(sorted_news[d_next].link)} :
           /\ normalized_url \in url_cache
           /\ removed_count' = removed_count + 1
    /\ d_next' = d_next + 1
    /\ UNCHANGED <<d_pc, news_list, sorted_news, unique_news, url_cache,
                   titleVars, pairVars, selectVars, runVars, extVars>>

\* one pass whose item duplicates an accepted one and takes its place
ReplaceExisting ==
    /\ d_pc = "loop" /\ d_next <= Len(sorted_news)
    /\ \E normalized_url \in {normalize_url(sorted_news[d_next].link)} :
           /\ normalized_url \notin url_cache
           /\ url_cache' = url_cache \cup {normalized_url}
    /\ \E k \in {FirstDuplicate(sorted_news[d_next], unique_news)} :
           /\ k > 0
           /\ ~should_replace_news_raises(unique_news[k], sorted_news[d_next])
           /\ should_replace_news(unique_news[k], sorted_news[d_next])
           /\ removed_count' = removed_count + 1
           /\ unique_news' = Append(ListRemove(unique_news, unique_news[k]),
                                    sorted_news[d_next])
    /\ d_next' = d_next + 1
    /\ UNCHANGED <<d_pc, news_list, sorted_news, titleVars, pairVars,
                   selectVars, runVars, extVars>>

\* one pass whose item duplicates an accepted one and is dropped
DropDuplicate ==
    /\ d_pc = "loop" /\ d_next <= Len(sorted_news)
    /\ \E normalized_url \in {normalize_url(sorted_news[d_next].link)} :
           /\ normalized_url \notin url_cache
           /\ url_cache' = url_cache \cup {normalized_url}
    /\ \E k \in {FirstDuplicate(sorted_news[d_next], unique_news)} :
           /\ k > 0
           /\ ~should_replace_news_raises(unique_news[k], sorted_news[d_next])
           /\ ~should_replace_news(unique_news[k], sorted_news[d_next])
           /\ removed_count' = removed_count + 1
    /\ d_next' = d_next + 1
    /\ UNCHANGED <<d_pc, news_list, sorted_news, unique_news,
                   titleVars, pairVars, selectVars, runVars, extVars>>

\* one pass whose item duplicates an accepted one, should_replace_news
\* raising at line 328: the exception leaves remove_duplicates_enhanced
ShouldReplaceRaises ==
    /\ d_pc = "loop" /\ d_next <= Len(sorted_news)
    /\ \E normalized_url \in {normalize_url(sorted_news[d_next].link)} :
           /\ normalized_url \notin url_cache
           /\ url_cache' = url_cache \cup {normalized_url}
    /\ \E k \in {FirstDuplicate(sorted_news[d_next], unique_news)} :
           /\ k > 0
           /\ should_replace_news_raises(unique_news[k], sorted_news[d_next])
           /\ removed_count' = removed_count + 1
    /\ d_pc' = "raised"
    /\ UNCHANGED <<news_list, sorted_news, d_next, unique_news,
                   titleVars, pairVars, selectVars, runVars, extVars>>

\* one pass whose item duplicates no accepted one
AcceptNews ==
    /\ d_pc = "loop" /\ d_next <= Len(sorted_news)
    /\ \E normalized_url \in {normalize_url(sorted_news[d_next].link)} :
           /\ normalized_url \notin url_cache
           /\ url_cache' = url_cache \cup {normalized_url}
    /\ FirstDuplicate(sorted_news[d_next], unique_news) = 0
    /\ unique_news' = Append(unique_news, sorted_news[d_next])
    /\ d_next' = d_next + 1
    /\ UNCHANGED <<d_pc, news_list, sorted_news, removed_count,
                   titleVars, pairVars, selectVars, runVars, extVars>>

\* line 352
ReturnUnique ==
    /\ d_pc = "loop" /\ d_next > Len(sorted_news)
    /\ d_pc' = "done"
    /\ UNCHANGED <<news_list, sorted_news, d_next, unique_news,
                   removed_count, url_cache, titleVars, pairVars,
                   selectVars, runVars, extVars>>

NextDedup ==
    \/ SortNews
    \/ UrlCacheHit
    \/ ReplaceExisting
    \/ DropDuplicate
    \/ ShouldReplaceRaises
    \/ AcceptNews
    \/ ReturnUnique

SpecDedup == InitDedup /\ [][NextDedup]_vars

\* C1: the returned list holds no two items at different positions that the
\* detector judges duplicates of each other
C1_NoDuplicatesLeft ==
    d_pc = "done" =>
        \A i, j \in 1..Len(unique_news) :
            i # j => ~is_duplicate_advanced(unique_news[i], unique_news[j])

\* the source tier of an item
Tier(news) == source_priority(news.source)

\* C10: of two items of the batch whose links normalize to the same URL, the
\* detector calls them duplicates and the one of the lower tier is not
\* the survivor
C10_HigherTierSurvives ==
    d_pc = "done" =>
        \A i, j \in 1..Len(news_list) :
            LET x == news_list[i]
                y == news_list[j]
            IN  url_duplicate(x, y) /\ Tier(x) > Tier(y) =>
                    /\ is_duplicate_advanced(x, y)
                    /\ ~(\E k \in 1..Len(unique_news) : unique_news[k] = y)

\* the two reports of one story: different URLs, sources of one tier, the
\* same description and the same publication time
IsStoryPair(a, b) ==
    /\ a.title = TaylorAlbum
    /\ b.title = TaylorShowgirl
    /\ normalize_url(a.link) # normalize_url(b.link)
    /\ Tier(a) = Tier(b)
    /\ a.description = b.description
    /\ a.published_date = b.published_date

\* C11: the detector judges the two reports of the story duplicates, and of
\* a batch of the two, in either order, the report with the longer title is
\* the one returned
C11_StoryMerged ==
    d_pc = "done" /\ Len(news_list) = 2 =>
        \A i, j \in 1..2 :
            IsStoryPair(news_list[i], news_list[j]) =>
                /\ is_duplicate_advanced(news_list[i], news_list[j])
                /\ unique_news = <<news_list[j]>>

\* the verdicts of the detector on the items of a list, pair by pair
DuplicateVerdicts(list) ==
    [i \in 1..Len(list), j \in 1..Len(list) |->
        is_duplicate_advanced(list[i], list[j])]

DistinctLinks(list) ==
    \A i, j \in 1..Len(list) : i # j => list[i].link # list[j].link

\* C12: of a batch of n items with links all different, in which the items
\* at the positions G are duplicates of one another and no other two items
\* are duplicates, exactly n - (k - 1) items are returned, k the size of G
C12_CountAfterRemoval ==
    d_pc \in {"done", "raised"} /\ DistinctLinks(news_list) =>
        LET n == Len(news_list)
            dup == DuplicateVerdicts(news_list)
        IN  \A G \in SUBSET (1..n) \ {{}} :
                (\A i, j \in 1..n : i < j => (dup[i, j] <=> {i, j} \subseteq G))
                    => /\ d_pc = "done"
                       /\ Len(unique_news) = n - (Cardinality(G) - 1)

\* C13: of a batch of two duplicates with different URLs whose tiers differ
\* by less than 2, one description more than 20% longer than the other, the
\* item with the longer description is the one returned, whatever the two
\* publication times are
C13_LongerDescriptionSurvives ==
    d_pc = "done" /\ Len(news_list) = 2 =>
        \A i, j \in 1..2 :
            LET x == news_list[i]
                y == news_list[j]
            IN  (/\ is_duplicate_advanced(x, y)
                 /\ normalize_url(x.link) # normalize_url(y.link)
                 /\ Abs(Tier(x) - Tier(y)) < 2
                 /\ 5 * content_length(x) > 6 * content_length(y))
                    => unique_news = <<x>>

\* C24: in the loop of remove_duplicates_enhanced the accepted items and
\* the removals add up to the items processed so far; the returned list has
\* len(input) - removed_count items and is not empty unless the input is
C24_Accounting ==
    /\ d_pc \in {"loop", "done"} =>
           Len(unique_news) + removed_count = d_next - 1
    /\ d_pc = "done" =>
           /\ Len(unique_news) = Len(news_list) - removed_count
           /\ news_list # <<>> => unique_news # <<>>

\* a returned list of two items for a batch of three
C24_Witness ==
    /\ d_pc = "done"
    /\ Len(news_list) = 3
    /\ removed_count = 1
    /\ Len(unique_news) = 2
    /\ unique_news[2] = sorted_news[3]
    /\ unique_news[1] \in {sorted_news[1], sorted_news[2]}
    /\ sorted_news[1] # sorted_news[2]

\* two items without a word, a source or a description in common
Unrelated(a, b) ==
    /\ a.source # b.source
    /\ a.title # <<>> /\ b.title # <<>>
    /\ WordSet(normalize_title(a.title))
          \cap WordSet(normalize_title(b.title)) = {}
    /\ a.description = <<>> /\ b.description = <<>>

\* C25: of a batch of two unrelated items that both have an empty link,
\* remove_duplicates_enhanced returns both
C25_EmptyLinksKept ==
    (/\ d_pc = "done"
     /\ Len(news_list) = 2
     /\ news_list[1].link = NoLink /\ news_list[2].link = NoLink
     /\ Unrelated(news_list[1], news_list[2]))
    => Len(unique_news) = 2

\* C20: remove_duplicates_enhanced returns for every batch, whatever the
\* published_date of its items: no exception leaves it
C20_NeverRaises == d_pc # "raised"

----------------------------------------------------------------------------
(* process_news_list, select_top_news_by_importance, select_trending_news *)

InitSelect ==
    /\ s_pc = "collected"
    /\ s_news \in NewsLists
    /\ s_max_total \in 0..MaxTotal
    /\ selected_news = <<>>
    /\ TitleOff
    /\ PairOff
    /\ DedupOff
    /\ RunOff
    /\ ExtOff

\* process_news_list returns the processed list, or an exception of its
\* except block leaves it and nothing is returned
ProcessNewsList ==
    /\ s_pc = "collected"
    /\ IF process_news_list_raises(s_news)
       THEN s_news' = s_news /\ s_pc' = "raised"
       ELSE s_news' = process_news_list(s_news) /\ s_pc' = "processed"
    /\ UNCHANGED <<s_max_total, selected_news, titleVars, pairVars,
                   dedupVars, runVars, extVars>>

SelectTopNewsByImportance ==
    /\ s_pc \in {"collected", "processed"}
    /\ selected_news' = select_top_news_by_importance(s_news, s_max_total)
    /\ s_pc' = "top"
    /\ UNCHANGED <<s_news, s_max_total, titleVars, pairVars, dedupVars,
                   runVars, extVars>>

SelectTrendingNews ==
    /\ s_pc \in {"collected", "processed"}
    /\ \E r \in {select_trending_news(s_news, s_max_total)} :
           /\ s_news' = r.news_list
           /\ selected_news' = r.selected_news
    /\ s_pc' = "trending"
    /\ UNCHANGED <<s_max_total, titleVars, pairVars, dedupVars, runVars, extVars>>

NextSelect ==
    \/ ProcessNewsList
    \/ SelectTopNewsByImportance
    \/ SelectTrendingNews

SpecSelect == InitSelect /\ [][NextSelect]_vars

\* the score of an item under a key, in the range 0 to 1
InUnitRange(news, key) ==
    key \in DOMAIN news => 0 <= news[key] /\ news[key] <= 10000

\* C4: every importance score that process_news_list computes and every
\* trending score that select_trending_news assigns lies between 0 and 1
C4_ScoresInRange ==
    \A i \in 1..Len(s_news) :
        /\ InUnitRange(s_news[i], "importance_score")
        /\ InUnitRange(s_news[i], "trending_score")

\* a processed list, the item with empty texts and source among them, has
\* been given its trending scores, the lowest and the highest included
C4_Witness ==
    /\ s_pc = "trending"
    /\ \E i, j \in 1..Len(s_news) :
           /\ s_news[i].title = <<>> /\ s_news[i].description = <<>>
           /\ s_news[i].source = ""
           /\ "importance_score" \in DOMAIN s_news[i]
           /\ s_news[i].trending_score = 3450
           /\ s_news[j].trending_score = 8075

Injective(f) == \A a, b \in DOMAIN f : f[a] = f[b] => a = b

\* C5: a selection has at most max_total items, and its items are items of
\* the list at positions all different
C5_AtMostNFromInput ==
    s_pc \in {"top", "trending"} =>
        /\ Len(selected_news) <= s_max_total
        /\ \E f \in [1..Len(selected_news) -> 1..Len(s_news)] :
               /\ Injective(f)
               /\ \A k \in 1..Len(selected_news) :
                      selected_news[k] = s_news[f[k]]

\* a list longer than the cap, holding the same item twice, has been cut to
\* the cap
C5_Witness ==
    /\ s_pc \in {"top", "trending"}
    /\ s_max_total > 0
    /\ Len(s_news) > s_max_total
    /\ Len(selected_news) = s_max_total
    /\ \E i, j \in 1..Len(s_news) : i < j /\ s_news[i] = s_news[j]

\* the key the selection that has run sorts by
SelectionKey == IF s_pc = "top" THEN "importance_score" ELSE "trending_score"

\* p arranges the positions of the list by descending key, positions with
\* equal keys in ascending order
DescendingStable(p, key) ==
    \A i, j \in DOMAIN p :
        i < j =>
            \/ Get(s_news[p[i]], key, 0) > Get(s_news[p[j]], key, 0)
            \/ /\ Get(s_news[p[i]], key, 0) = Get(s_news[p[j]], key, 0)
               /\ p[i] < p[j]

\* C6: a selection is the first min(max_total, len) items of the list sorted
\* by descending score, items of equal score in the order of the list
C6_SortedPrefixStable ==
    s_pc \in {"top", "trending"} =>
        /\ Len(selected_news) = Min(s_max_total, Len(s_news))
        /\ \E p \in [1..Len(s_news) -> 1..Len(s_news)] :
               /\ Injective(p)
               /\ DescendingStable(p, SelectionKey)
               /\ \A k \in 1..Len(selected_news) :
                      selected_news[k] = s_news[p[k]]

\* two different items of equal score, after an item of a lower score, have
\* been selected by importance, the cap leaving the third item out
C6_Witness ==
    /\ s_pc = "top"
    /\ Len(s_news) = 3 /\ s_max_total = 2
    /\ "importance_score" \in DOMAIN s_news[1]
    /\ s_news[2] # s_news[3]
    /\ s_news[2].importance_score = s_news[3].importance_score
    /\ s_news[1].importance_score < s_news[2].importance_score
    /\ selected_news = <<s_news[2], s_news[3]>>

\* the number of keywords of the c-th configured category in the text of news
KeywordCount(c, news) ==
    Cardinality({k \in 1..Len(category_keywords[c][2]) :
                    TermIn(category_keywords[c][2][k],
                           StrLower(news.title \o <<" ">> \o news.description))})

\* the items of a processed list that the try block produced
Classified(list) ==
    {i \in 1..Len(list) : list[i].summary_type = "rule_based"}

\* C15: the category of a classified item is one of the five configured
\* categories: NEWS when no category has a keyword in the text, else the
\* category with the most keywords in the text, the first of them in the
\* configured order when several have the most.
C15_CategoryByKeywordCount ==
    s_pc = "processed" =>
        \A i \in Classified(s_news) :
            \E c \in 1..Len(category_keywords) :
                /\ \A d \in 1..Len(category_keywords) :
                       KeywordCount(d, s_news[i]) <= KeywordCount(c, s_news[i])
                /\ \A d \in 1..(c - 1) :
                       KeywordCount(d, s_news[i]) < KeywordCount(c, s_news[i])
                /\ s_news[i].category =
                       IF KeywordCount(c, s_news[i]) = 0 THEN "NEWS"
                       ELSE category_keywords[c][1]

\* a classified item with two categories at the same positive count, filed
\* under the earlier one, and one without any keyword, filed under NEWS
C15_Witness ==
    /\ s_pc = "processed"
    /\ \E i \in Classified(s_news) :
           \E c, d \in 1..Len(category_keywords) :
               /\ c < d
               /\ KeywordCount(c, s_news[i]) > 0
               /\ KeywordCount(c, s_news[i]) = KeywordCount(d, s_news[i])
               /\ \A f \in 1..Len(category_keywords) :
                      KeywordCount(f, s_news[i]) <= KeywordCount(c, s_news[i])
               /\ s_news[i].category = category_keywords[c][1]
    /\ \E i \in Classified(s_news) :
           /\ \A c \in 1..Len(category_keywords) :
                  KeywordCount(c, s_news[i]) = 0
           /\ s_news[i].category = "NEWS"

\* C16 as stated: a classified item has region tags only when it has
\* neither a genre tag nor an industry tag
C16_RegionOnlyWithoutOthers ==
    s_pc = "processed" =>
        \A i \in Classified(s_news) :
            s_news[i].tags.region # {} =>
                s_news[i].tags.genre = {} /\ s_news[i].tags.industry = {}

\* the text of news holds a keyword of a region other than KOREA
NamesOtherRegion(news) ==
    \E n \in 1..Len(region_keywords) :
        /\ region_keywords[n][1] # "KOREA"
        /\ \E k \in 1..Len(region_keywords[n][2]) :
               TermIn(region_keywords[n][2][k],
                      StrLower(news.title \o <<" ">> \o news.description))

\* C16: a classified item has region tags exactly when its genre tags
\* include K-POP or its text holds a keyword of a region other than KOREA,
\* whether or not it has genre or industry tags.
C16_RegionByGenreAndKeywords ==
    s_pc = "processed" =>
        \A i \in Classified(s_news) :
            s_news[i].tags.region # {} <=>
                \/ "K-POP" \in s_news[i].tags.genre
                \/ NamesOtherRegion(s_news[i])

\* a classified item with a genre tag, an industry tag and a region tag, and
\* one with a region tag alone
C16_Witness ==
    /\ s_pc = "processed"
    /\ \E i \in Classified(s_news) :
           /\ s_news[i].tags.region # {}
           /\ s_news[i].tags.genre # {}
           /\ s_news[i].tags.industry # {}
    /\ \E i \in Classified(s_news) :
           /\ s_news[i].tags.region # {}
           /\ s_news[i].tags.genre = {}
           /\ s_news[i].tags.industry = {}

\* the recency sub-score (in hundredths) that the importance score of a
\* classified item holds: what the score leaves over the weighted other
\* components, divided by the weight of recency
RecencySubScore(news) ==
    (news.importance_score
       - calculate_source_credibility(news.source) * 25
       - keyword_score(text_combined(news)) * 20
       - calculate_artist_influence_dynamic(text_combined(news)) * 25
       - industry_score(text_combined(news)) * 15
       - social_score * 5) \div 10

\* C17: the recency sub-score of a classified item is 0.5 when its timestamp
\* is missing or does not parse, and one of the steps 1.0, 0.8, 0.6 and 0.3
\* when it parses
C17_RecencyByTimestamp ==
    s_pc = "processed" =>
        \A i \in Classified(s_news) :
            s_news[i].importance_score < 10000 =>
                IF Parses(s_news[i].published_date)
                THEN RecencySubScore(s_news[i]) \in {100, 80, 60, 30}
                ELSE RecencySubScore(s_news[i]) = 50

\* C18: process_news_list returns, for every list, one item per item given,
\* in the order given and with the fields given; an item whose processing
\* fails (a title or a description that is None) comes out as NEWS with
\* empty tags and the importance 0.5
C18_OneOutputPerInput ==
    [][s_pc = "collected" /\ s_pc' \in {"processed", "raised"} =>
          /\ s_pc' = "processed"
          /\ Len(s_news') = Len(s_news)
          /\ \A i \in 1..Len(s_news) :
                 /\ \A f \in DOMAIN s_news[i] : s_news'[i][f] = s_news[i][f]
                 /\ IsNone(s_news[i].title) \/ IsNone(s_news[i].description) =>
                        /\ s_news'[i].category = "NEWS"
                        /\ s_news'[i].tags =
                               [genre |-> {}, industry |-> {}, region |-> {}]
                        /\ s_news'[i].importance_score = 5000]_vars

\* C23: the two selections leave the list they are given as it is: no item
\* gets a field or another value, and the order stays
C23_SelectionsReadOnly ==
    [][(s_pc # "top" /\ s_pc # "trending") /\ s_pc' \in {"top", "trending"} =>
          s_news' = s_news]_vars

----------------------------------------------------------------------------
(* run_automation.  Stage 1 is collect_all_news: the items fetched are      *)
(* news_list, remove_duplicates_enhanced runs on them as above, and         *)
(* CollectAllNews ends the stage.                                           *)

InitRun ==
    /\ r_pc = "collecting"
    /\ r_news = <<>>
    /\ r_stage = 0
    /\ r_metrics = [total_news_collected |-> 0, final_news_count |-> 0]
    /\ r_report = [success |-> FALSE, error |-> ""]
    /\ d_pc = "start"
    /\ news_list \in FetchedLists
    /\ sorted_news = <<>>
    /\ d_next = 0
    /\ unique_news = <<>>
    /\ removed_count = 0
    /\ url_cache = {}
    /\ TitleOff
    /\ PairOff
    /\ SelectOff
    /\ ExtOff

no_news_ignored(collected_news) == FALSE

\* `not collected_news`, line 66
no_news(collected_news) == collected_news = <<>>

\* collect_all_news lines 546-555 and run_automation lines 60-68: without
\* news the run returns _generate_report(success=False), which sets no error
CollectAllNews ==
    /\ r_pc = "collecting" /\ d_pc = "done"
    /\ \E collected_news \in
           {SortedDescending(unique_news,
                             ScoreBefore(unique_news, "relevance_score"))} :
           /\ r_news' = collected_news
           /\ r_metrics' = [r_metrics EXCEPT
                               !.total_news_collected = Len(collected_news)]
           /\ IF no_news(collected_news)
              THEN /\ r_report' = [success |-> FALSE, error |-> ""]
                   /\ r_pc' = "done"
              ELSE /\ r_report' = r_report
                   /\ r_pc' = "collected"
    /\ r_stage' = 1
    /\ UNCHANGED <<titleVars, pairVars, dedupVars, selectVars, extVars>>

\* stage 2, lines 70-73; every title and description fetch_rss_feed delivers
\* is a string, so process_news_list returns
ProcessStage ==
    /\ r_pc = "collected"
    /\ r_news' = process_news_list(r_news)
    /\ r_stage' = 2
    /\ r_pc' = "processed"
    /\ UNCHANGED <<r_metrics, r_report, titleVars, pairVars, dedupVars,
                   selectVars, extVars>>

\* stage 3, lines 75-78
ValidateStage ==
    /\ r_pc = "processed"
    /\ r_news' = _validate_news_quality(r_news)
    /\ r_stage' = 3
    /\ r_pc' = "validated"
    /\ UNCHANGED <<r_metrics, r_report, titleVars, pairVars, dedupVars,
                   selectVars, extVars>>

\* the handler of line 114 taken for a report of success
SelectStage_reports_success ==
    /\ r_pc = "validated"
    /\ r_report' = [success |-> TRUE, error |-> "AttributeError"]
    /\ r_pc' = "done"
    /\ UNCHANGED <<r_news, r_stage, r_metrics, titleVars, pairVars, dedupVars,
                   selectVars, extVars>>

\* stage 4, line 82: AdvancedClassifier has no select_top_news_by_category,
\* the attribute lookup raises AttributeError and the handler at line 114
\* returns the report of failure; the stages after line 82 are not reached
SelectStage ==
    /\ r_pc = "validated"
    /\ "select_top_news_by_category" \notin AdvancedClassifierMethods
    /\ r_report' = [success |-> FALSE, error |-> "AttributeError"]
    /\ r_pc' = "done"
    /\ UNCHANGED <<r_news, r_stage, r_metrics, titleVars, pairVars, dedupVars,
                   selectVars, extVars>>

NextRun ==
    \/ SortNews
    \/ UrlCacheHit
    \/ ReplaceExisting
    \/ DropDuplicate
    \/ AcceptNews
    \/ ReturnUnique
    \/ CollectAllNews
    \/ ProcessStage
    \/ ValidateStage
    \/ SelectStage

SpecRun == InitRun /\ [][NextRun]_vars

max_per_category == 4

Categories == {category_keywords[c][1] : c \in 1..Len(category_keywords)}

\* C7: a run that collected news ends with stage 4 completed, the list of
\* that stage holding at most max_per_category items of each category, in
\* descending order of importance
C7_PerCategoryThenStage5 ==
    r_pc = "done" /\ r_metrics.total_news_collected > 0 =>
        /\ r_stage >= 4
        /\ \A c \in Categories :
               Cardinality({i \in 1..Len(r_news) : r_news[i].category = c})
                 <= max_per_category
        /\ \A i, j \in 1..Len(r_news) :
               i < j => r_news[i].importance_score
                          >= r_news[j].importance_score

\* C19: when the collection yields no news, the run ends there with a report
\* of failure: no later stage runs and nothing is selected
C19_EmptyBatchEndsRun ==
    r_stage >= 1 /\ r_metrics.total_news_collected = 0 =>
        /\ r_pc = "done"
        /\ r_stage = 1
        /\ r_news = <<>>
        /\ r_report = [success |-> FALSE, error |-> ""]
        /\ r_metrics.final_news_count = 0

\* a run that fetched nothing and ended after stage 1
C19_Witness ==
    /\ news_list = <<>>
    /\ r_pc = "done"
    /\ r_stage = 1
    /\ ~r_report.success

----------------------------------------------------------------------------
(* should_replace_news on two items *)

\* how a call of should_replace_news ends
should_replace_news_outcome(existing, new) ==
    IF should_replace_news_raises(existing, new) THEN "raised"
    ELSE IF should_replace_news(existing, new) THEN "True"
    ELSE "False"

\* the items the resolver is given
ResolvePool == DedupPool \cup StoryPool

\* links an item may carry instead of its own
ResolveLinks == {LinkA1, LinkB, NoLink}

InitResolve ==
    /\ v_pc = "in"
    /\ v_existing \in ResolvePool
    /\ v_new \in ResolvePool
    /\ v_result = ""
    /\ v_again = ""
    /\ v_swapped = ""
    /\ CoreOff
    /\ HashOff
    /\ SummarizerOff
    /\ DeliveryOff

Resolve ==
    /\ v_pc = "in"
    /\ v_result' = should_replace_news_outcome(v_existing, v_new)
    /\ v_pc' = "resolved"
    /\ UNCHANGED <<v_existing, v_new, v_again, v_swapped, coreVars, hashVars,
                   summarizerVars, deliveryVars>>

\* a second call, on items that agree with the two on source, title,
\* description and published_date and carry any links
ResolveAgain ==
    /\ v_pc = "resolved"
    /\ \E l1, l2 \in ResolveLinks :
           v_again' = should_replace_news_outcome(
                          [v_existing EXCEPT !.link = l1],
                          [v_new EXCEPT !.link = l2])
    /\ v_pc' = "again"
    /\ UNCHANGED <<v_existing, v_new, v_result, v_swapped, coreVars, hashVars,
                   summarizerVars, deliveryVars>>

\* the call with the two items in the other order
ResolveSwapped ==
    /\ v_pc = "again"
    /\ v_swapped' = should_replace_news_outcome(v_new, v_existing)
    /\ v_pc' = "swapped"
    /\ UNCHANGED <<v_existing, v_new, v_result, v_again, coreVars, hashVars,
                   summarizerVars, deliveryVars>>

NextResolve ==
    \/ Resolve
    \/ ResolveAgain
    \/ ResolveSwapped

SpecResolve == InitResolve /\ [][NextResolve]_vars

TierDecides(a, b) ==
    Abs(source_priority(a.source) - source_priority(b.source)) >= 2

\* both times parse and are more than an hour apart
RecencyDecides(a, b) ==
    /\ a.published_date.kind = "time"
    /\ b.published_date.kind = "time"
    /\ Abs(a.published_date.t - b.published_date.t) > 3600

\* 3 * tier + 0.1 * title quality + 0.01 * description length, in hundredths
FallbackScore(a) ==
    300 * source_priority(a.source)
      + 10 * (CharLen(a.title) + CountSpaces(a.title))
      + CharLen(a.description)

\* C26: should_replace_news never prefers each of two items over the other,
\* and it prefers neither only when neither the tiers nor the times decide
\* and the two fallback scores are equal
C26_NeverBothPreferred ==
    v_pc = "swapped" =>
        /\ ~(v_result = "True" /\ v_swapped = "True")
        /\ v_result = "False" /\ v_swapped = "False" =>
               /\ ~TierDecides(v_existing, v_new)
               /\ ~RecencyDecides(v_existing, v_new)
               /\ FallbackScore(v_existing) = FallbackScore(v_new)

\* two different items of which neither is preferred over the other
C26_Witness ==
    /\ v_pc = "swapped"
    /\ v_existing # v_new
    /\ v_result = "False"
    /\ v_swapped = "False"

----------------------------------------------------------------------------
(* generate_content_hash on two texts *)

ElevenWords ==
    <<"band", " ", "indie", " ", "rock", " ", "life", " ", "showgirl", " ",
      "hiphop", " ", "swift", " ", "album", " ", "tour", " ", "song", " ",
      "drake">>
ElevenShuffled ==
    <<"drake", " ", "song", " ", "band", " ", "tour", " ", "indie", " ",
      "album", " ", "rock", " ", "swift", " ", "life", " ", "hiphop", " ",
      "showgirl">>
FiveWords == <<"band", " ", "indie", " ", "rock", " ", "life", " ", "showgirl">>
SixWords ==
    <<"hiphop", " ", "swift", " ", "album", " ", "tour", " ", "song", " ",
      "drake">>
TourIndie == <<"tour", " ", "announces", " ", "band", " ", "indie">>

\* titles and descriptions with eleven and with three meaningful words
HashTexts ==
    { [title |-> ElevenWords, description |-> <<>>],
      [title |-> ElevenShuffled, description |-> <<>>],
      [title |-> FiveWords, description |-> SixWords],
      [title |-> IndieTour, description |-> <<>>],
      [title |-> TourIndie, description |-> <<>>] }

InitHash ==
    /\ h_pc = "in"
    /\ h_first \in HashTexts
    /\ h_second \in HashTexts
    /\ h_hash_first = <<>>
    /\ h_hash_second = <<>>
    /\ CoreOff
    /\ ResolveOff
    /\ SummarizerOff
    /\ DeliveryOff

HashFirst ==
    /\ h_pc = "in"
    /\ h_hash_first' \in content_hashes(h_first.title, h_first.description)
    /\ h_pc' = "first"
    /\ UNCHANGED <<h_first, h_second, h_hash_second, coreVars, resolveVars,
                   summarizerVars, deliveryVars>>

\* the same text fills the same sets in the same order, and gets the same
\* fingerprint again
HashSecond ==
    /\ h_pc = "first"
    /\ IF h_second = h_first THEN h_hash_second' = h_hash_first
       ELSE h_hash_second' \in
                content_hashes(h_second.title, h_second.description)
    /\ h_pc' = "both"
    /\ UNCHANGED <<h_first, h_second, h_hash_first, coreVars, resolveVars,
                   summarizerVars, deliveryVars>>

NextHash ==
    \/ HashFirst
    \/ HashSecond

SpecHash == InitHash /\ [][NextHash]_vars

\* C22: two texts with the same set of core keywords and the same set of
\* meaningful words get the same fingerprint
C22_SameSetsSameHash ==
    (/\ h_pc = "both"
     /\ extract_core_keywords(h_first.title, h_first.description)
          = extract_core_keywords(h_second.title, h_second.description)
     /\ meaningful_words(h_first.title, h_first.description)
          = meaningful_words(h_second.title, h_second.description))
    => h_hash_first = h_hash_second

----------------------------------------------------------------------------
(* generate_summary and _check_rate_limit of AISummarizer and              *)
(* AnthropicSummarizer.  A call ends in one of three ways: the reply is    *)
(* returned as the summary, the reply is turned down (AISummarizer: the    *)
(* quality check fails; AnthropicSummarizer: the reply has no content),    *)
(* or the request raises (connection, timeout, HTTP status).  In all three *)
(* the request was sent to the API.                                        *)

max_requests_per_minute == 50

MaxCalls == 53

SummarizerClasses == {"AISummarizer", "AnthropicSummarizer"}

\* _check_rate_limit: `self.request_count >= self.max_requests_per_minute`,
\* then time.sleep(60) and request_count = 0
limit_reached(count) == count >= max_requests_per_minute

\* request_count after _check_rate_limit
count_after_check(count) == IF limit_reached(count) THEN 0 ELSE count

\* requests sent since the last wait, after _check_rate_limit
sent_after_check(count, sent) == IF limit_reached(count) THEN 0 ELSE sent

InitSummarizer ==
    /\ u_pc = "ready"
    /\ u_class \in SummarizerClasses
    /\ request_count = 0
    /\ u_sent = 0
    /\ u_calls = 0
    /\ CoreOff
    /\ ResolveOff
    /\ HashOff
    /\ DeliveryOff

\* the request succeeds and its reply is returned: request_count += 1
SummaryReturned ==
    /\ u_pc # "off"
    /\ u_calls < MaxCalls
    /\ request_count' = count_after_check(request_count) + 1
    /\ u_sent' = sent_after_check(request_count, u_sent) + 1
    /\ u_calls' = u_calls + 1
    /\ u_pc' = "summary"
    /\ UNCHANGED <<u_class, coreVars, resolveVars, hashVars, deliveryVars>>

\* the request succeeds and its reply is turned down: the fallback summary
\* is returned and request_count is left as it is
ReplyTurnedDown ==
    /\ u_pc # "off"
    /\ u_calls < MaxCalls
    /\ request_count' = count_after_check(request_count)
    /\ u_sent' = sent_after_check(request_count, u_sent) + 1
    /\ u_calls' = u_calls + 1
    /\ u_pc' = "fallback_reply"
    /\ UNCHANGED <<u_class, coreVars, resolveVars, hashVars, deliveryVars>>

\* the request raises: the handler returns the fallback summary and
\* request_count is left as it is
RequestRaises ==
    /\ u_pc # "off"
    /\ u_calls < MaxCalls
    /\ request_count' = count_after_check(request_count)
    /\ u_sent' = sent_after_check(request_count, u_sent) + 1
    /\ u_calls' = u_calls + 1
    /\ u_pc' = "fallback_error"
    /\ UNCHANGED <<u_class, coreVars, resolveVars, hashVars, deliveryVars>>

NextSummarizer ==
    \/ SummaryReturned
    \/ ReplyTurnedDown
    \/ RequestRaises

SpecSummarizer == InitSummarizer /\ [][NextSummarizer]_vars

\* C28: between two waits of _check_rate_limit, and before the first, at
\* most max_requests_per_minute requests are sent, however the calls end,
\* and request_count stays within 0..max_requests_per_minute
C28_AtMostFiftyBetweenWaits ==
    /\ u_sent <= max_requests_per_minute
    /\ request_count \in 0..max_requests_per_minute

\* the part of C28 about the counter alone
C28_CounterInRange ==
    request_count \in 0..max_requests_per_minute

----------------------------------------------------------------------------
(* NewsDeliverySystem: send_slack_message, send_email and deliver_news.    *)
(* The Slack message of a list of items is the header line, the line of    *)
(* the category, three lines for each item (title, date and link, empty)   *)
(* and the empty string after the last line break; a line is modelled by   *)
(* its length.                                                             *)

max_length == 4000

\* "음악 업계 뉴스 브리핑 - 2025년 01월 01일"
HeaderLength == 28

\* ":newspaper: NEWS"
CategoryLength == 16

MaxItems == 2

\* lengths of the title line and of the line of date and link
LineLengths == {40, max_length \div 2, max_length - 50, max_length + 1}

RECURSIVE ItemLines(_)
ItemLines(items) ==
    IF items = <<>> THEN <<>>
    ELSE <<Head(items)[1], Head(items)[2], 0>> \o ItemLines(Tail(items))

\* format_slack_message on a list of items of one category
format_slack_message(items) ==
    <<HeaderLength, CategoryLength>> \o ItemLines(items) \o <<0>>

ItemLists ==
    UNION {[1..n -> LineLengths \X LineLengths] : n \in 1..MaxItems}

Messages == {format_slack_message(items) : items \in ItemLists}

RECURSIVE SumLengths(_)
SumLengths(lengths) ==
    IF lengths = <<>> THEN 0 ELSE Head(lengths) + SumLengths(Tail(lengths))

\* len(message): the lines and the line breaks between them
MessageLen(lines) == SumLengths(lines) + Len(lines) - 1

\* a part is a sequence of pieces [line, chars, nl]: chars characters of
\* the line, followed by a line break or not
RECURSIVE PartLen(_)
PartLen(part) ==
    IF part = <<>> THEN 0
    ELSE Head(part).chars + (IF Head(part).nl THEN 1 ELSE 0)
           + PartLen(Tail(part))

WholeLine(lines, i) == [line |-> i, chars |-> lines[i], nl |-> TRUE]

\* line[:max_length]
CutLine(lines, i) ==
    [line |-> i, chars |-> Min(lines[i], max_length), nl |-> FALSE]

\* the loop of lines 381-391, from line i on
RECURSIVE split_from(_, _, _, _)
split_from(lines, i, parts, current_part) ==
    IF i > Len(lines)
    THEN IF current_part # <<>> THEN Append(parts, current_part) ELSE parts
    ELSE IF PartLen(current_part) + lines[i] + 1 > max_length
         THEN IF current_part # <<>>
              THEN split_from(lines, i + 1, Append(parts, current_part),
                              <<WholeLine(lines, i)>>)
              ELSE split_from(lines, i + 1,
                              Append(parts, <<CutLine(lines, i)>>), <<>>)
         ELSE split_from(lines, i + 1, parts,
                         Append(current_part, WholeLine(lines, i)))

split_parts(lines) == split_from(lines, 1, <<>>, <<>>)

Digits(k) == IF k < 10 THEN 1 ELSE IF k < 100 THEN 2 ELSE 3

\* len(f"[{i+1}/{len(parts)}]\n")
PrefixLen(k, total) == Digits(k) + Digits(total) + 4

\* the texts send_slack_message posts for a message, lines 368-401
slack_texts(lines) ==
    IF MessageLen(lines) <= max_length
    THEN <<[length |-> MessageLen(lines),
            pieces |-> [i \in 1..Len(lines) |->
                           [line |-> i, chars |-> lines[i],
                            nl |-> i < Len(lines)]]]>>
    ELSE [k \in 1..Len(split_parts(lines)) |->
             [length |-> PrefixLen(k, Len(split_parts(lines)))
                           + PartLen(split_parts(lines)[k]),
              pieces |-> split_parts(lines)[k]]]

InitDelivery ==
    /\ n_pc = "start"
    /\ n_test_mode \in BOOLEAN
    /\ n_client \in BOOLEAN
    /\ n_test_mode => ~n_client
    /\ n_message \in Messages \cup {<<>>}
    /\ n_html \in {"html", "raises"}
    /\ n_posts = <<>>
    /\ n_slack = ""
    /\ n_email = ""
    /\ n_results = [slack_success |-> FALSE, email_success |-> FALSE]
    /\ CoreOff
    /\ ResolveOff
    /\ HashOff
    /\ SummarizerOff

slack_raise_uncaught(outcome) == IF outcome = "raised" THEN "raised" ELSE "slack"

\* deliver_news lines 472-475: the call of send_slack_message is inside a
\* try whose handler logs, and the e-mail is next however the call ended
after_slack(outcome) == "slack"

\* what deliver_news does with the outcome of send_slack_message
SlackEnds(outcome) ==
    /\ n_slack' = outcome
    /\ n_results' = [n_results EXCEPT !.slack_success = (outcome = "True")]
    /\ n_pc' = after_slack(outcome)
    /\ UNCHANGED <<n_test_mode, n_client, n_message, n_html, n_email,
                   coreVars, resolveVars, hashVars, summarizerVars>>

\* lines 341-352: in test mode the message is formatted outside any try and
\* nothing is posted
SlackTestMode ==
    /\ n_pc = "start"
    /\ n_test_mode
    /\ n_posts' = n_posts
    /\ SlackEnds(IF n_message = <<>> THEN "raised" ELSE "True")

\* lines 354-356
SlackNoClient ==
    /\ n_pc = "start"
    /\ ~n_test_mode /\ ~n_client
    /\ n_posts' = n_posts
    /\ SlackEnds("False")

\* lines 358-403: every chat_postMessage succeeds
SlackPosted ==
    /\ n_pc = "start"
    /\ ~n_test_mode /\ n_client
    /\ n_message # <<>>
    /\ n_posts' = slack_texts(n_message)
    /\ SlackEnds("True")

\* lines 405-410: the formatting raises, or a chat_postMessage does after
\* some of the texts were posted
SlackFails ==
    /\ n_pc = "start"
    /\ ~n_test_mode /\ n_client
    /\ IF n_message = <<>> THEN n_posts' = n_posts
       ELSE \E k \in 0..(Len(slack_texts(n_message)) - 1) :
                n_posts' = SubSeq(slack_texts(n_message), 1, k)
    /\ SlackEnds("False")

\* what deliver_news does with the outcome of send_email, lines 478-494
EmailEnds(outcome) ==
    /\ n_email' = outcome
    /\ n_results' = [n_results EXCEPT !.email_success = (outcome = "True")]
    /\ n_pc' = "returned"
    /\ UNCHANGED <<n_test_mode, n_client, n_message, n_html, n_posts, n_slack,
                   coreVars, resolveVars, hashVars, summarizerVars>>

\* lines 414-425
EmailTestMode ==
    /\ n_pc = "slack"
    /\ n_test_mode
    /\ EmailEnds(IF n_html = "raises" THEN "raised" ELSE "True")

\* lines 427-450
EmailSent ==
    /\ n_pc = "slack"
    /\ ~n_test_mode
    /\ n_html = "html"
    /\ EmailEnds("True")

\* lines 452-454: the formatting or the SMTP session raises
EmailFails ==
    /\ n_pc = "slack"
    /\ ~n_test_mode
    /\ EmailEnds("False")

NextDelivery ==
    \/ SlackTestMode
    \/ SlackNoClient
    \/ SlackPosted
    \/ SlackFails
    \/ EmailTestMode
    \/ EmailSent
    \/ EmailFails

SpecDelivery == InitDelivery /\ [][NextDelivery]_vars

\* the message was split and every text was posted
SplitPosted ==
    /\ n_slack = "True"
    /\ n_posts # <<>>
    /\ MessageLen(n_message) > max_length

\* every line of the message is in the posted texts in full
EveryLinePosted ==
    \A i \in 1..Len(n_message) :
        \E k \in 1..Len(n_posts) :
            \E j \in 1..Len(n_posts[k].pieces) :
                /\ n_posts[k].pieces[j].line = i
                /\ n_posts[k].pieces[j].chars = n_message[i]

\* C29: when a message of more than max_length characters is split, every
\* text posted, its "[i/n]" prefix included, has at most max_length
\* characters, and the texts hold every line of the message in full
C29_SplitWithinLimit ==
    SplitPosted =>
        /\ \A k \in 1..Len(n_posts) : n_posts[k].length <= max_length
        /\ EveryLinePosted

\* the part of C29 about the lines alone
C29_NoLineLost == SplitPosted => EveryLinePosted

====
